---- MODULE Spec2Model ----
(***************************************************************************)
(* A model of the simplecipher package: the Key variants, the key          *)
(* derivation, the CBC / CFB / OFB / CTR / GCM modes over one 16-byte      *)
(* block cipher, the stream-to-string adapter and the string codec.        *)
(*                                                                         *)
(* Bytes are the naturals 0..255.  A Go string and a Go []byte are both a  *)
(* sequence of bytes.  An error is the chain of the errors it wraps, the   *)
(* outermost first; the nil error is the empty chain.                      *)
(***************************************************************************)
EXTENDS Integers, Sequences, FiniteSets, TLC

\* ------------------------------------------------------------------------
\* Program constants
\* ------------------------------------------------------------------------
BlockSize == 16
Aes128 == 16
Aes192 == 24
Aes256 == 32
NonceSize == 12
gcmTagSize == 16
gcmStandardNonceSize == 12
scryptN == 2048
scryptR == 8
scryptP == 1

\* ------------------------------------------------------------------------
\* Bounds of the model
\* ------------------------------------------------------------------------
\* plaintexts have 0..MaxBlocks whole blocks, with or without a 5-byte tail
MaxBlocks == 2

\* ------------------------------------------------------------------------
\* Bytes and byte sequences
\* ------------------------------------------------------------------------
Nil == << >>

Range(s) == {s[i] : i \in 1..Len(s)}

Min(a, b) == IF a < b THEN a ELSE b

Take(s, n) == SubSeq(s, 1, Min(n, Len(s)))

Drop(s, n) == SubSeq(s, n + 1, Len(s))

Repeat(b, n) == [i \in 1..n |-> b]

Bit(a, w) == (a \div w) % 2

XorBit(a, b, w) == w * ((Bit(a, w) + Bit(b, w)) % 2)

XorByte(a, b) ==
    XorBit(a, b, 1) + XorBit(a, b, 2) + XorBit(a, b, 4) + XorBit(a, b, 8)
    + XorBit(a, b, 16) + XorBit(a, b, 32) + XorBit(a, b, 64) + XorBit(a, b, 128)

\* dst[i] = x[i] XOR y[i] for the first Len(x) bytes; Len(y) >= Len(x)
XorBytes(x, y) == [i \in 1..Len(x) |-> XorByte(x[i], y[i])]

\* ------------------------------------------------------------------------
\* Errors
\* ------------------------------------------------------------------------
ErrPlaintextBlockSize == <<"ErrPlaintextBlockSize">>
ErrCipherTextTooShort == <<"ErrCipherTextTooShort">>
ErrCipherTextBlockSize == <<"ErrCipherTextBlockSize">>
KeySizeError == <<"aes.KeySizeError">>
errOpen == <<"cipher: message authentication failed">>

\* fmt.Errorf("%w: %w", outer, inner)
Wrap(outer, inner) == <<outer>> \o inner

\* errors.Is(err, target) for a sentinel target
ErrorsIs(err, target) == target \in Range(err)

\* ------------------------------------------------------------------------
\* The underlying block cipher (crypto/aes), as a keyed permutation of
\* 16-byte blocks
\* ------------------------------------------------------------------------
aesNewCipher(key) ==
    IF Len(key) \in {Aes128, Aes192, Aes256}
    THEN [err |-> Nil, block |-> key]
    ELSE [err |-> KeySizeError, block |-> << >>]

RoundKeyByte(k, i) == (k[i] + k[Len(k) + 1 - i] + Len(k)) % 256

blockEncrypt(k, b) ==
    [i \in 1..BlockSize |-> (b[(i % BlockSize) + 1] + RoundKeyByte(k, i) + i) % 256]

blockDecrypt(k, c) ==
    [j \in 1..BlockSize |->
        LET i == IF j = 1 THEN BlockSize ELSE j - 1
        IN  (c[i] + 512 - RoundKeyByte(k, i) - i) % 256]

\* ------------------------------------------------------------------------
\* crypto/cipher: the modes of operation over the block cipher.  A value of
\* the form [panic |-> TRUE, ...] is a run-time panic of the library call.
\* ------------------------------------------------------------------------
RECURSIVE cbcEncryptBlocks(_, _, _)
cbcEncryptBlocks(k, prev, src) ==
    IF Len(src) = 0 THEN << >>
    ELSE LET c == blockEncrypt(k, XorBytes(Take(src, BlockSize), prev))
         IN  c \o cbcEncryptBlocks(k, c, Drop(src, BlockSize))

RECURSIVE cbcDecryptBlocks(_, _, _)
cbcDecryptBlocks(k, prev, src) ==
    IF Len(src) = 0 THEN << >>
    ELSE LET c == Take(src, BlockSize)
         IN  XorBytes(blockDecrypt(k, c), prev) \o cbcDecryptBlocks(k, c, Drop(src, BlockSize))

\* cipher.NewCBCEncrypter(block, iv) followed by mode.CryptBlocks(dst, src)
NewCBCEncrypter(block, iv, src) ==
    IF Len(iv) # BlockSize THEN [panic |-> TRUE, out |-> << >>]
    ELSE IF Len(src) % BlockSize # 0 THEN [panic |-> TRUE, out |-> << >>]
    ELSE [panic |-> FALSE, out |-> cbcEncryptBlocks(block, iv, src)]

\* cipher.NewCBCDecrypter(block, iv) followed by mode.CryptBlocks(dst, src)
NewCBCDecrypter(block, iv, src) ==
    IF Len(iv) # BlockSize THEN [panic |-> TRUE, out |-> << >>]
    ELSE IF Len(src) % BlockSize # 0 THEN [panic |-> TRUE, out |-> << >>]
    ELSE [panic |-> FALSE, out |-> cbcDecryptBlocks(block, iv, src)]

\* CFB: the shift register is fed with the ciphertext, which is the output
\* when encrypting and the input when decrypting
RECURSIVE cfbXORKeyStream(_, _, _, _)
cfbXORKeyStream(k, reg, src, decrypting) ==
    IF Len(src) = 0 THEN << >>
    ELSE LET inp == Take(src, BlockSize)
             out == XorBytes(inp, blockEncrypt(k, reg))
         IN  out \o (IF Len(src) <= BlockSize THEN << >>
                     ELSE cfbXORKeyStream(k, IF decrypting THEN inp ELSE out,
                                          Drop(src, BlockSize), decrypting))

\* OFB: the register is the previous keystream block
RECURSIVE ofbXORKeyStream(_, _, _)
ofbXORKeyStream(k, reg, src) ==
    IF Len(src) = 0 THEN << >>
    ELSE LET ks == blockEncrypt(k, reg)
         IN  XorBytes(Take(src, BlockSize), ks) \o ofbXORKeyStream(k, ks, Drop(src, BlockSize))

\* big-endian increment of the bytes lo..i of a counter block
RECURSIVE IncFrom(_, _, _)
IncFrom(c, i, lo) ==
    IF i < lo THEN c
    ELSE IF c[i] = 255 THEN IncFrom([c EXCEPT ![i] = 0], i - 1, lo)
    ELSE [c EXCEPT ![i] = c[i] + 1]

\* CTR: the keystream is the encryption of successive counter blocks; lo is
\* the first byte of the counter (1 for cipher.NewCTR, 13 for GCM)
RECURSIVE ctrXORKeyStream(_, _, _, _)
ctrXORKeyStream(k, counter, src, lo) ==
    IF Len(src) = 0 THEN << >>
    ELSE XorBytes(Take(src, BlockSize), blockEncrypt(k, counter))
         \o ctrXORKeyStream(k, IncFrom(counter, BlockSize, lo), Drop(src, BlockSize), lo)

\* GCM: the authentication tag over the ciphertext body
RECURSIVE gcmFold(_, _, _)
gcmFold(body, i, blk) ==
    IF i > Len(body) THEN 0
    ELSE (2 * blk + 1) * body[i] + gcmFold(body, i + BlockSize, blk + 1)

gcmHash(k, body) ==
    LET H == blockEncrypt(k, Repeat(0, BlockSize))
    IN  [i \in 1..gcmTagSize |-> (H[i] + Len(body) + gcmFold(body, i, 0)) % 256]

gcmCounter0(nonce) == nonce \o <<0, 0, 0, 1>>

gcmAuth(k, nonce, body) == XorBytes(gcmHash(k, body), blockEncrypt(k, gcmCounter0(nonce)))

gcmCrypt(k, nonce, src) ==
    ctrXORKeyStream(k, IncFrom(gcmCounter0(nonce), BlockSize, gcmStandardNonceSize + 1), src, gcmStandardNonceSize + 1)

\* aesgcm.Seal(nil, nonce, plaintext, nil)
gcmSeal(k, nonce, plaintext) ==
    IF Len(nonce) # gcmStandardNonceSize THEN [panic |-> TRUE, out |-> << >>]
    ELSE LET body == gcmCrypt(k, nonce, plaintext)
         IN  [panic |-> FALSE, out |-> body \o gcmAuth(k, nonce, body)]

\* aesgcm.Open(nil, nonce, ciphertext, nil)
gcmOpen(k, nonce, ciphertext) ==
    IF Len(nonce) # gcmStandardNonceSize THEN [panic |-> TRUE, out |-> << >>, err |-> Nil]
    ELSE IF Len(ciphertext) < gcmTagSize THEN [panic |-> FALSE, out |-> << >>, err |-> errOpen]
    ELSE LET body == Take(ciphertext, Len(ciphertext) - gcmTagSize)
             tag  == Drop(ciphertext, Len(ciphertext) - gcmTagSize)
         IN  IF tag # gcmAuth(k, nonce, body)
             THEN [panic |-> FALSE, out |-> << >>, err |-> errOpen]
             ELSE [panic |-> FALSE, out |-> gcmCrypt(k, nonce, body), err |-> Nil]

\* ------------------------------------------------------------------------
\* The string codecs (encoding.go).  DefaultStringCodec is an interface
\* variable: it holds HexCodec, NopCodec or nil; a method call on the nil
\* interface panics.
\* ------------------------------------------------------------------------
HexCodec == "HexCodec"
NopCodec == "NopCodec"
NilCodec == "nil"

Codecs == {HexCodec, NopCodec, NilCodec}

\* "0123456789abcdef"[n] as an ASCII code
HexDigit(n) == IF n < 10 THEN 48 + n ELSE 87 + n

\* hex.EncodeToString
hexEncodeToString(src) ==
    [i \in 1..(2 * Len(src)) |->
        IF i % 2 = 1 THEN HexDigit(src[(i + 1) \div 2] \div 16)
        ELSE HexDigit(src[i \div 2] % 16)]

\* the value of one hexadecimal character, -1 when it is none
FromHexChar(c) ==
    IF c >= 48 /\ c <= 57 THEN c - 48
    ELSE IF c >= 97 /\ c <= 102 THEN c - 87
    ELSE IF c >= 65 /\ c <= 70 THEN c - 55
    ELSE -1

\* hex.DecodeString
hexDecodeString(s) ==
    IF \E i \in 1..Len(s) : FromHexChar(s[i]) < 0
    THEN [b |-> << >>, err |-> <<"hex.InvalidByteError">>]
    ELSE IF Len(s) % 2 = 1
    THEN [b |-> << >>, err |-> <<"hex.ErrLength">>]
    ELSE [b |-> [i \in 1..(Len(s) \div 2) |->
                    16 * FromHexChar(s[2 * i - 1]) + FromHexChar(s[2 * i])],
          err |-> Nil]

\* codec.EncodeToString(src)
EncodeToString(codec, src) ==
    IF codec = NilCodec THEN [panic |-> TRUE, s |-> << >>]
    ELSE IF codec = NopCodec THEN [panic |-> FALSE, s |-> src]
    ELSE [panic |-> FALSE, s |-> hexEncodeToString(src)]

\* DecodeString that takes a string of hexadecimal digits for hex under
\* every codec
DecodeString_hexWhereItFits(codec, s) ==
    IF codec = NilCodec THEN [panic |-> TRUE, b |-> << >>, err |-> Nil]
    ELSE LET d == hexDecodeString(s)
         IN  IF d.err = Nil THEN [panic |-> FALSE, b |-> d.b, err |-> Nil]
             ELSE IF codec = NopCodec THEN [panic |-> FALSE, b |-> s, err |-> Nil]
             ELSE [panic |-> FALSE, b |-> d.b, err |-> d.err]

\* codec.DecodeString(s)
DecodeString(codec, s) ==
    IF codec = NilCodec THEN [panic |-> TRUE, b |-> << >>, err |-> Nil]
    ELSE IF codec = NopCodec THEN [panic |-> FALSE, b |-> s, err |-> Nil]
    ELSE LET d == hexDecodeString(s)
         IN  [panic |-> FALSE, b |-> d.b, err |-> d.err]

\* ------------------------------------------------------------------------
\* Keys (key.go)
\* ------------------------------------------------------------------------
RECURSIVE SumBytes(_, _)
SumBytes(s, i) == IF i > Len(s) THEN 0 ELSE s[i] + SumBytes(s, i + 1)

\* scrypt.Key(password, salt, N, r, p, keyLen): a deterministic function of
\* the password and the salt; a longer output extends a shorter one
scryptKey(password, salt, N, r, p, keyLen) ==
    IF N <= 1 \/ N % 2 # 0 \/ r * p >= 1073741824
    THEN [key |-> << >>, err |-> <<"scrypt: parameters are invalid">>]
    ELSE LET mixed == 31 * SumBytes(password, 1) + 17 * SumBytes(salt, 1)
                      + 7 * Len(password) + 3 * Len(salt) + 1
         IN  [key |-> [i \in 1..keyLen |-> (mixed + 13 * i * i + 29 * i) % 256],
              err |-> Nil]

\* for i := keyLength; i < expectedKeyLen; i++ { key = append(key, byte(i%256)) }
padKey(key, expectedKeyLen) ==
    [i \in 1..expectedKeyLen |-> IF i <= Len(key) THEN key[i] ELSE (i - 1) % 256]

\* keyGen.Bytes that returns nil when scrypt succeeded
keyGenBytes_nilOnSuccess(k) ==
    LET expectedKeyLen == IF k.Len < 0 THEN 0 ELSE k.Len
        derived == scryptKey(k.Passphrase, k.Salt, scryptN, scryptR, scryptP, expectedKeyLen)
        key0 == derived.key
    IN  IF derived.err = Nil /\ Len(key0) = expectedKeyLen THEN << >>
        ELSE IF Len(key0) < expectedKeyLen THEN padKey(key0, expectedKeyLen)
        ELSE IF Len(key0) > expectedKeyLen THEN Take(key0, expectedKeyLen)
        ELSE key0

\* keyGen.Bytes from the return of scrypt.Key on: derived is what scrypt.Key
\* returned, and it is assigned to key, the variable that held the passphrase
keyGenBytesOn(k, derived) ==
    LET expectedKeyLen == IF k.Len < 0 THEN 0 ELSE k.Len
        key == derived.key
    IN  IF derived.err # Nil /\ Len(key) = expectedKeyLen THEN << >>
        ELSE IF Len(key) < expectedKeyLen THEN padKey(key, expectedKeyLen)
        ELSE IF Len(key) > expectedKeyLen THEN Take(key, expectedKeyLen)
        ELSE key

\* keyGen.Bytes that derives without the salt stored in the key
keyGenBytes_unsalted(k) ==
    LET expectedKeyLen == IF k.Len < 0 THEN 0 ELSE k.Len
    IN  keyGenBytesOn(k, scryptKey(k.Passphrase, << >>, scryptN, scryptR, scryptP,
                                   expectedKeyLen))

\* func (k keyGen) Bytes() []byte
keyGenBytes(k) ==
    LET expectedKeyLen == IF k.Len < 0 THEN 0 ELSE k.Len
    IN  keyGenBytesOn(k, scryptKey(k.Passphrase, k.Salt, scryptN, scryptR, scryptP,
                                   expectedKeyLen))

\* what scrypt.Key returns when it fails: no key, and an error
scryptFailed == scryptKey(<< >>, << >>, 0, scryptR, scryptP, 0)

\* The Key values: bytesKey, stringKey, *keyGen, and the nil pointer, whose
\* Bytes() dereferences nil
bytesKey(b) == [kind |-> "bytesKey", b |-> b, Passphrase |-> << >>, Len |-> 0, Salt |-> << >>]

stringKey(s) == [kind |-> "stringKey", b |-> s, Passphrase |-> << >>, Len |-> 0, Salt |-> << >>]

newKeyGen(passphrase, len, salt) ==
    [kind |-> "keyGen", b |-> << >>, Passphrase |-> passphrase, Len |-> len, Salt |-> salt]

nilKey == [kind |-> "nil", b |-> << >>, Passphrase |-> << >>, Len |-> 0, Salt |-> << >>]

\* key.Bytes()
KeyBytes(key) ==
    IF key.kind = "nil" THEN [panic |-> TRUE, b |-> << >>]
    ELSE IF key.kind = "keyGen" THEN [panic |-> FALSE, b |-> keyGenBytes(key)]
    ELSE [panic |-> FALSE, b |-> key.b]

\* WithLen that leaves the check of the length to NewAesKey
WithLen_unchecked(keyLen) == keyLen

\* WithLen(keyLen)
WithLen(keyLen) == IF keyLen \notin {Aes128, Aes192, Aes256} THEN Aes256 ELSE keyLen

\* NewAesKey(passphrase) under the default salt in force
NewAesKey(passphrase, salt) == newKeyGen(passphrase, Aes256, salt)

\* NewNonce(passphrase) under the default salt in force
NewNonce(passphrase, salt) == newKeyGen(passphrase, NonceSize, salt)

\* NewIv(passphrase) under the default salt in force
NewIv(passphrase, salt) == newKeyGen(passphrase, BlockSize, salt)

\* func NewKey(passphrase string, len KeyLen, salt string) Key
NewKey(passphrase, len, salt) == newKeyGen(passphrase, len, salt)

\* A KeyGenOption is a closure that assigns one field of the keyGen: v is
\* the value it assigns, arg the argument the option was made from.
\* WithLen(keyLen) captures the length after its own check of it.
OptLen(keyLen) == [field |-> "Len", v |-> WithLen(keyLen), arg |-> keyLen]

\* WithSalt(salt)
OptSalt(salt) == [field |-> "Salt", v |-> salt, arg |-> salt]

\* WithPassphrase(passphrase)
OptPassphrase(passphrase) == [field |-> "Passphrase", v |-> passphrase, arg |-> passphrase]

\* for _, opt := range options { opt(keygen) }
RECURSIVE applyOptions(_, _)
applyOptions(keygen, options) ==
    IF options = << >> THEN keygen
    ELSE applyOptions([keygen EXCEPT ![options[1].field] = options[1].v], Drop(options, 1))

\* NewAesKey that applies its options from the last to the first
NewAesKeyWith_firstWins(passphrase, options, salt) ==
    LET reversed == [i \in 1..Len(options) |-> options[Len(options) + 1 - i]]
        keygen == applyOptions(newKeyGen(passphrase, Aes256, salt), reversed)
    IN  IF keygen.Len \notin {Aes128, Aes192, Aes256} THEN [keygen EXCEPT !.Len = Aes256]
        ELSE keygen

\* func NewAesKey(passphrase string, options ...KeyGenOption) Key
NewAesKeyWith(passphrase, options, salt) ==
    LET keygen == applyOptions(newKeyGen(passphrase, Aes256, salt), options)
    IN  IF keygen.Len \notin {Aes128, Aes192, Aes256} THEN [keygen EXCEPT !.Len = Aes256]
        ELSE keygen

\* func NewNonce(passphrase string, options ...KeyGenOption) Key
NewNonceWith(passphrase, options, salt) ==
    applyOptions(newKeyGen(passphrase, NonceSize, salt), options)

\* func NewIv(passphrase string, options ...KeyGenOption) Key
NewIvWith(passphrase, options, salt) ==
    applyOptions(newKeyGen(passphrase, BlockSize, salt), options)

\* ------------------------------------------------------------------------
\* Results.  out is the returned string (for a Stream, the bytes written to
\* the sink), err the returned error, panic whether the call ended in a
\* panic that left it, fault whether a panic was raised while it ran, raw
\* the ciphertext bytes before string encoding.
\* ------------------------------------------------------------------------
Ret(out, err, raw) == [out |-> out, err |-> err, panic |-> FALSE, fault |-> FALSE, raw |-> raw]

Panic(out) == [out |-> out, err |-> Nil, panic |-> TRUE, fault |-> TRUE, raw |-> << >>]

\* a fault recovered by a callee is still a fault of the caller's run
Faulted(r, inner) == [r EXCEPT !.fault = r.fault \/ inner.fault]

\* recoverFromPanic that reports the panic value without wrapping ErrPanic
recoverFromPanic_unwrapped(r) ==
    IF r.panic
    THEN [out |-> r.out, err |-> <<"panic value">>, panic |-> FALSE,
          fault |-> TRUE, raw |-> r.raw]
    ELSE r

\* func recoverFromPanic(err *error), deferred: the named results keep the
\* values they had when the panic was raised, err is overwritten
recoverFromPanic(r) ==
    IF r.panic
    THEN [out |-> r.out, err |-> <<"ErrPanic", "panic value">>, panic |-> FALSE,
          fault |-> TRUE, raw |-> r.raw]
    ELSE r

\* recoverPanic(&err), deferred by the Stream methods
recoverPanic(r) ==
    IF r.panic
    THEN [out |-> r.out, err |-> <<"ErrPanic", "panic value">>, panic |-> FALSE,
          fault |-> TRUE, raw |-> r.raw]
    ELSE r

\* ------------------------------------------------------------------------
\* Readers and writers.  A reader delivers data and then io.EOF, or a read
\* error when fails is set; a writer accepts cap bytes and then fails when
\* fails is set (a bytes.Buffer never fails).
\* ------------------------------------------------------------------------
Reader(data, fails) == [data |-> data, fails |-> fails]

Writer(cap, fails) == [cap |-> cap, fails |-> fails]

Buffer == Writer(0, FALSE)

\* w.Write(p) after `written` bytes went to w: the bytes accepted and the error
Write(w, written, p) ==
    IF w.fails /\ written + Len(p) > w.cap
    THEN [n |-> Take(p, IF w.cap > written THEN w.cap - written ELSE 0),
          err |-> <<"write error">>]
    ELSE [n |-> p, err |-> Nil]

\* ------------------------------------------------------------------------
\* Stream modes (steam, EncryptStream / DecryptStream)
\* ------------------------------------------------------------------------
encrypt == "encrypt"
decrypt == "decrypt"

\* The builders return the block and IV the cipher.Stream is made of; the
\* stream itself is XORKeyStream below.  cipher.NewCFBEncrypter,
\* cipher.NewCFBDecrypter, cipher.NewOFB and cipher.NewCTR panic on an IV
\* that is not one block long.
newStream(block, iv) ==
    IF Len(iv) # BlockSize THEN [panic |-> TRUE, err |-> Nil, block |-> << >>]
    ELSE [panic |-> FALSE, err |-> Nil, block |-> block]

cfbStreamBuilder(key, iv, encryptOrDecrypt) ==
    LET blk == aesNewCipher(key)
    IN  IF blk.err # Nil THEN [panic |-> FALSE, err |-> blk.err, block |-> << >>]
        ELSE IF encryptOrDecrypt \in {encrypt, decrypt} THEN newStream(blk.block, iv)
        ELSE [panic |-> FALSE, err |-> <<"invalid encryptOrDecrypt">>, block |-> << >>]

ofbStreamBuilder(key, iv, encryptOrDecrypt) ==
    LET blk == aesNewCipher(key)
    IN  IF blk.err # Nil THEN [panic |-> FALSE, err |-> blk.err, block |-> << >>]
        ELSE newStream(blk.block, iv)

ctrStreamBuilder(key, iv, encryptOrDecrypt) ==
    LET blk == aesNewCipher(key)
    IN  IF blk.err # Nil THEN [panic |-> FALSE, err |-> blk.err, block |-> << >>]
        ELSE newStream(blk.block, iv)

\* s.cipherStream(key, iv, encryptOrDecrypt)
cipherStreamBuilder(builder, key, iv, encryptOrDecrypt) ==
    IF builder = "cfb" THEN cfbStreamBuilder(key, iv, encryptOrDecrypt)
    ELSE IF builder = "ofb" THEN ofbStreamBuilder(key, iv, encryptOrDecrypt)
    ELSE ctrStreamBuilder(key, iv, encryptOrDecrypt)

\* XORKeyStream of a CFB stream that is an encrypter in both directions
XORKeyStream_encrypterOnly(builder, block, iv, encryptOrDecrypt, src) ==
    IF builder = "cfb" THEN cfbXORKeyStream(block, iv, src, FALSE)
    ELSE IF builder = "ofb" THEN ofbXORKeyStream(block, iv, src)
    ELSE ctrXORKeyStream(block, iv, src, 1)

\* stream.XORKeyStream over all the bytes copied through the stream
XORKeyStream(builder, block, iv, encryptOrDecrypt, src) ==
    IF builder = "cfb" THEN cfbXORKeyStream(block, iv, src, encryptOrDecrypt = decrypt)
    ELSE IF builder = "ofb" THEN ofbXORKeyStream(block, iv, src)
    ELSE ctrXORKeyStream(block, iv, src, 1)

\* EncryptStream that does not write the IV ahead of the body
steamEncryptStream_noIvPrefix(s, plainText, cipherText) ==
    recoverPanic(
      LET key == KeyBytes(s.key)
          iv  == KeyBytes(s.iv)
      IN  IF key.panic \/ iv.panic THEN Panic(<< >>)
          ELSE
          LET stream == cipherStreamBuilder(s.cipherStream, key.b, iv.b, encrypt)
          IN  IF stream.panic THEN Panic(<< >>)
              ELSE IF stream.err # Nil
              THEN Ret(<< >>, Wrap("ErrNewAesCipher", stream.err), << >>)
              ELSE
              LET body == XORKeyStream(s.cipherStream, stream.block, iv.b, encrypt,
                                       plainText.data)
                  w2 == Write(cipherText, 0, body)
              IN  IF w2.err # Nil THEN Ret(w2.n, Wrap("ErrCopy", w2.err), w2.n)
                  ELSE IF plainText.fails
                  THEN Ret(w2.n, Wrap("ErrCopy", <<"read error">>), w2.n)
                  ELSE Ret(w2.n, Nil, w2.n))

\* func (s *steam) EncryptStream(plainText io.Reader, cipherText io.Writer)
\* steam.EncryptStream that writes the IV before it builds the cipher
steamEncryptStream_ivWrittenFirst(s, plainText, cipherText) ==
    recoverPanic(
      LET key == KeyBytes(s.key)
          iv  == KeyBytes(s.iv)
      IN  IF key.panic \/ iv.panic THEN Panic(<< >>)
          ELSE
          LET w1 == Write(cipherText, 0, iv.b)
              stream == cipherStreamBuilder(s.cipherStream, key.b, iv.b, encrypt)
          IN  IF w1.err # Nil THEN Ret(w1.n, Wrap("ErrCopy", w1.err), w1.n)
              ELSE IF stream.panic THEN Panic(w1.n)
              ELSE IF stream.err # Nil
              THEN Ret(w1.n, Wrap("ErrNewAesCipher", stream.err), w1.n)
              ELSE
              LET body == XORKeyStream(s.cipherStream, stream.block, iv.b, encrypt,
                                       plainText.data)
                  w2 == Write(cipherText, Len(iv.b), body)
                  sink == w1.n \o w2.n
              IN  IF w2.err # Nil THEN Ret(sink, Wrap("ErrCopy", w2.err), sink)
                  ELSE IF plainText.fails
                  THEN Ret(sink, Wrap("ErrCopy", <<"read error">>), sink)
                  ELSE Ret(sink, Nil, sink))

steamEncryptStream(s, plainText, cipherText) ==
    recoverPanic(
      LET key == KeyBytes(s.key)
          iv  == KeyBytes(s.iv)
      IN  IF key.panic \/ iv.panic THEN Panic(<< >>)
          ELSE
          LET stream == cipherStreamBuilder(s.cipherStream, key.b, iv.b, encrypt)
          IN  IF stream.panic THEN Panic(<< >>)
              ELSE IF stream.err # Nil
              THEN Ret(<< >>, Wrap("ErrNewAesCipher", stream.err), << >>)
              ELSE
              LET w1 == Write(cipherText, 0, iv.b)
              IN  IF w1.err # Nil THEN Ret(w1.n, Wrap("ErrCopy", w1.err), w1.n)
                  ELSE
                  LET body == XORKeyStream(s.cipherStream, stream.block, iv.b, encrypt,
                                           plainText.data)
                      w2 == Write(cipherText, Len(iv.b), body)
                      sink == w1.n \o w2.n
                  IN  IF w2.err # Nil THEN Ret(sink, Wrap("ErrCopy", w2.err), sink)
                      ELSE IF plainText.fails
                      THEN Ret(sink, Wrap("ErrCopy", <<"read error">>), sink)
                      ELSE Ret(sink, Nil, sink))

\* io.ReadFull(cipherText, iv) with len(iv) = aes.BlockSize
ReadFull(r) ==
    IF Len(r.data) >= BlockSize THEN [b |-> Take(r.data, BlockSize), err |-> Nil]
    ELSE IF r.fails THEN [b |-> r.data, err |-> <<"read error">>]
    ELSE IF Len(r.data) = 0 THEN [b |-> r.data, err |-> <<"io.EOF">>]
    ELSE [b |-> r.data, err |-> <<"io.ErrUnexpectedEOF">>]

\* DecryptStream that skips the IV prefix and decrypts under the instance's IV
steamDecryptStream_instanceIv(s, cipherText, plainText) ==
    recoverPanic(
      LET key == KeyBytes(s.key)
          own == KeyBytes(s.iv)
      IN  IF key.panic \/ own.panic THEN Panic(<< >>)
          ELSE
          LET iv == ReadFull(cipherText)
          IN  IF iv.err # Nil THEN Ret(<< >>, Wrap("ErrCopy", iv.err), << >>)
              ELSE
              LET stream == cipherStreamBuilder(s.cipherStream, key.b, own.b, decrypt)
              IN  IF stream.panic THEN Panic(<< >>)
                  ELSE IF stream.err # Nil
                  THEN Ret(<< >>, Wrap("ErrNewAesCipher", stream.err), << >>)
                  ELSE
                  LET body == XORKeyStream(s.cipherStream, stream.block, own.b, decrypt,
                                           Drop(cipherText.data, BlockSize))
                      w == Write(plainText, 0, body)
                  IN  IF w.err # Nil THEN Ret(w.n, Wrap("ErrCopy", w.err), << >>)
                      ELSE IF cipherText.fails
                      THEN Ret(w.n, Wrap("ErrCopy", <<"read error">>), << >>)
                      ELSE Ret(w.n, Nil, << >>))

\* DecryptStream that builds the cipher.Stream from the instance's IV before
\* it reads the source
steamDecryptStream_cipherFirst(s, cipherText, plainText) ==
    recoverPanic(
      LET key == KeyBytes(s.key)
          own == KeyBytes(s.iv)
      IN  IF key.panic \/ own.panic THEN Panic(<< >>)
          ELSE
          LET first == cipherStreamBuilder(s.cipherStream, key.b, own.b, decrypt)
          IN  IF first.panic THEN Panic(<< >>)
              ELSE IF first.err # Nil
              THEN Ret(<< >>, Wrap("ErrNewAesCipher", first.err), << >>)
              ELSE
              LET iv == ReadFull(cipherText)
              IN  IF iv.err # Nil THEN Ret(<< >>, Wrap("ErrCopy", iv.err), << >>)
                  ELSE
                  LET body == XORKeyStream(s.cipherStream, first.block, iv.b, decrypt,
                                           Drop(cipherText.data, BlockSize))
                      w == Write(plainText, 0, body)
                  IN  IF w.err # Nil THEN Ret(w.n, Wrap("ErrCopy", w.err), << >>)
                      ELSE IF cipherText.fails
                      THEN Ret(w.n, Wrap("ErrCopy", <<"read error">>), << >>)
                      ELSE Ret(w.n, Nil, << >>))

\* DecryptStream that reads the IV and then transforms the whole source, the
\* IV bytes included
steamDecryptStream_ivNotConsumed(s, cipherText, plainText) ==
    recoverPanic(
      LET key == KeyBytes(s.key)
      IN  IF key.panic THEN Panic(<< >>)
          ELSE
          LET iv == ReadFull(cipherText)
          IN  IF iv.err # Nil THEN Ret(<< >>, Wrap("ErrCopy", iv.err), << >>)
              ELSE
              LET stream == cipherStreamBuilder(s.cipherStream, key.b, iv.b, decrypt)
              IN  IF stream.panic THEN Panic(<< >>)
                  ELSE IF stream.err # Nil
                  THEN Ret(<< >>, Wrap("ErrNewAesCipher", stream.err), << >>)
                  ELSE
                  LET body == XORKeyStream(s.cipherStream, stream.block, iv.b, decrypt,
                                           cipherText.data)
                      w == Write(plainText, 0, body)
                  IN  IF w.err # Nil THEN Ret(w.n, Wrap("ErrCopy", w.err), << >>)
                      ELSE IF cipherText.fails
                      THEN Ret(w.n, Wrap("ErrCopy", <<"read error">>), << >>)
                      ELSE Ret(w.n, Nil, << >>))

\* func (s *steam) DecryptStream(cipherText io.Reader, plainText io.Writer)
steamDecryptStream(s, cipherText, plainText) ==
    recoverPanic(
      LET key == KeyBytes(s.key)
      IN  IF key.panic THEN Panic(<< >>)
          ELSE
          LET iv == ReadFull(cipherText)
          IN  IF iv.err # Nil THEN Ret(<< >>, Wrap("ErrCopy", iv.err), << >>)
              ELSE
              LET stream == cipherStreamBuilder(s.cipherStream, key.b, iv.b, decrypt)
              IN  IF stream.panic THEN Panic(<< >>)
                  ELSE IF stream.err # Nil
                  THEN Ret(<< >>, Wrap("ErrNewAesCipher", stream.err), << >>)
                  ELSE
                  LET body == XORKeyStream(s.cipherStream, stream.block, iv.b, decrypt,
                                           Drop(cipherText.data, BlockSize))
                      w == Write(plainText, 0, body)
                  IN  IF w.err # Nil THEN Ret(w.n, Wrap("ErrCopy", w.err), << >>)
                      ELSE IF cipherText.fails
                      THEN Ret(w.n, Wrap("ErrCopy", <<"read error">>), << >>)
                      ELSE Ret(w.n, Nil, << >>))

\* ------------------------------------------------------------------------
\* PKCS#7 padding (package pkcs7)
\* ------------------------------------------------------------------------
\* Pad that appends nothing to data of a whole number of blocks
Pad_noFullBlock(n, buf) ==
    IF n <= 1 \/ n >= 256 THEN [panic |-> TRUE, out |-> << >>]
    ELSE LET padding == (n - (Len(buf) % n)) % n
         IN  [panic |-> FALSE, out |-> buf \o Repeat(padding, padding)]

\* pkcs7.Pad(n, buf)
Pad(n, buf) ==
    IF n <= 1 \/ n >= 256 THEN [panic |-> TRUE, out |-> << >>]
    ELSE LET padding == n - (Len(buf) % n)
         IN  [panic |-> FALSE, out |-> buf \o Repeat(padding, padding)]

\* Unpad that takes a full block of padding for too long
Unpad_fullBlockTooLong(n, buf) ==
    IF n <= 1 \/ n >= 256 THEN [panic |-> TRUE, out |-> << >>, err |-> Nil]
    ELSE IF Len(buf) = 0
    THEN [panic |-> FALSE, out |-> << >>, err |-> <<"ErrorPaddingNotFound">>]
    ELSE IF Len(buf) % n # 0
    THEN [panic |-> FALSE, out |-> << >>, err |-> <<"ErrorPaddingNotAMultiple">>]
    ELSE LET padding == buf[Len(buf)]
         IN  IF padding >= n
             THEN [panic |-> FALSE, out |-> << >>, err |-> <<"ErrorPaddingTooLong">>]
             ELSE IF padding = 0
             THEN [panic |-> FALSE, out |-> << >>, err |-> <<"ErrorPaddingTooShort">>]
             ELSE IF \E i \in 0..(padding - 1) : buf[Len(buf) - i] # padding
             THEN [panic |-> FALSE, out |-> << >>, err |-> <<"ErrorPaddingNotAllTheSame">>]
             ELSE [panic |-> FALSE, out |-> Take(buf, Len(buf) - padding), err |-> Nil]

\* Unpad that looks at the last byte only
Unpad_lastByteOnly(n, buf) ==
    IF n <= 1 \/ n >= 256 THEN [panic |-> TRUE, out |-> << >>, err |-> Nil]
    ELSE IF Len(buf) = 0
    THEN [panic |-> FALSE, out |-> << >>, err |-> <<"ErrorPaddingNotFound">>]
    ELSE IF Len(buf) % n # 0
    THEN [panic |-> FALSE, out |-> << >>, err |-> <<"ErrorPaddingNotAMultiple">>]
    ELSE LET padding == buf[Len(buf)]
         IN  IF padding > n
             THEN [panic |-> FALSE, out |-> << >>, err |-> <<"ErrorPaddingTooLong">>]
             ELSE IF padding = 0
             THEN [panic |-> FALSE, out |-> << >>, err |-> <<"ErrorPaddingTooShort">>]
             ELSE [panic |-> FALSE, out |-> Take(buf, Len(buf) - padding), err |-> Nil]

\* pkcs7.Unpad(n, buf)
Unpad(n, buf) ==
    IF n <= 1 \/ n >= 256 THEN [panic |-> TRUE, out |-> << >>, err |-> Nil]
    ELSE IF Len(buf) = 0
    THEN [panic |-> FALSE, out |-> << >>, err |-> <<"ErrorPaddingNotFound">>]
    ELSE IF Len(buf) % n # 0
    THEN [panic |-> FALSE, out |-> << >>, err |-> <<"ErrorPaddingNotAMultiple">>]
    ELSE LET padding == buf[Len(buf)]
         IN  IF padding > n
             THEN [panic |-> FALSE, out |-> << >>, err |-> <<"ErrorPaddingTooLong">>]
             ELSE IF padding = 0
             THEN [panic |-> FALSE, out |-> << >>, err |-> <<"ErrorPaddingTooShort">>]
             ELSE IF \E i \in 0..(padding - 1) : buf[Len(buf) - i] # padding
             THEN [panic |-> FALSE, out |-> << >>, err |-> <<"ErrorPaddingNotAllTheSame">>]
             ELSE [panic |-> FALSE, out |-> Take(buf, Len(buf) - padding), err |-> Nil]

\* ------------------------------------------------------------------------
\* Cipher instances.  kind is the implementing type: cbc, simpleCBC, gcm,
\* streamToBlock (the adapter around a steam) or steam (a Stream).
\* ------------------------------------------------------------------------
Instance(kind, key, iv, builder) ==
    [kind |-> kind, key |-> key, iv |-> iv, cipherStream |-> builder]

NewCBC(key, iv) == Instance("cbc", key, iv, "none")

NewGCM(key, nonce) == Instance("gcm", key, nonce, "none")

NewCFBStream(key, iv) == Instance("steam", key, iv, "cfb")

NewOFBStream(key, iv) == Instance("steam", key, iv, "ofb")

NewCTRStream(key, iv) == Instance("steam", key, iv, "ctr")

\* newStreamToBlock(sc): the adapter holds the Stream it wraps
newStreamToBlock(sc) == [sc EXCEPT !.kind = "streamToBlock"]

NewCFB(key, iv) == newStreamToBlock(NewCFBStream(key, iv))

NewOFB(key, iv) == newStreamToBlock(NewOFBStream(key, iv))

NewCTR(key, iv) == newStreamToBlock(NewCTRStream(key, iv))

\* the Simple constructors; salt is DefaultSalt() and randomIv the Key that
\* NewRandomIv() returned
SimpleCBC(keyPassphrase, salt, randomIv) ==
    Instance("simpleCBC", NewAesKey(keyPassphrase, salt), randomIv, "none")

SimpleGCM(keyPassphrase, noncePassphrase, salt) ==
    NewGCM(NewAesKey(keyPassphrase, salt), NewNonce(noncePassphrase, salt))

SimpleCFBStream(keyPassphrase, salt, randomIv) ==
    NewCFBStream(NewAesKey(keyPassphrase, salt), randomIv)

SimpleOFBStream(keyPassphrase, salt, randomIv) ==
    NewOFBStream(NewAesKey(keyPassphrase, salt), randomIv)

SimpleCTRStream(keyPassphrase, salt, randomIv) ==
    NewCTRStream(NewAesKey(keyPassphrase, salt), randomIv)

SimpleCFB(keyPassphrase, salt, randomIv) ==
    newStreamToBlock(SimpleCFBStream(keyPassphrase, salt, randomIv))

SimpleOFB(keyPassphrase, salt, randomIv) ==
    newStreamToBlock(SimpleOFBStream(keyPassphrase, salt, randomIv))

SimpleCTR(keyPassphrase, salt, randomIv) ==
    newStreamToBlock(SimpleCTRStream(keyPassphrase, salt, randomIv))

\* ------------------------------------------------------------------------
\* CBC (cbc.Encrypt, cbc.Decrypt, simpleCBC)
\* ------------------------------------------------------------------------
\* cbc.Encrypt that makes the AES block before it looks at the plaintext size
cbcEncrypt_cipherFirst(c, plainText, codec) ==
    recoverFromPanic(
      LET key == KeyBytes(c.key)
          iv  == KeyBytes(c.iv)
      IN  IF key.panic \/ iv.panic THEN Panic(<< >>)
          ELSE
          LET blk == aesNewCipher(key.b)
          IN  IF blk.err # Nil THEN Ret(<< >>, blk.err, << >>)
              ELSE IF Len(plainText) % BlockSize # 0
              THEN Ret(<< >>, ErrPlaintextBlockSize, << >>)
              ELSE
              LET mode == NewCBCEncrypter(blk.block, iv.b, plainText)
              IN  IF mode.panic THEN Panic(<< >>)
                  ELSE
                  LET ciphertext == Take(iv.b, BlockSize) \o mode.out
                      enc == EncodeToString(codec, ciphertext)
                  IN  IF enc.panic THEN Panic(<< >>)
                      ELSE Ret(enc.s, Nil, ciphertext))

\* func (c *cbc) Encrypt(plainText string) (cipherText string, err error)
cbcEncrypt(c, plainText, codec) ==
    recoverFromPanic(
      LET key == KeyBytes(c.key)
          iv  == KeyBytes(c.iv)
      IN  IF key.panic \/ iv.panic THEN Panic(<< >>)
          ELSE IF Len(plainText) % BlockSize # 0 THEN Ret(<< >>, ErrPlaintextBlockSize, << >>)
          ELSE
          LET blk == aesNewCipher(key.b)
          IN  IF blk.err # Nil THEN Ret(<< >>, blk.err, << >>)
              ELSE
              LET mode == NewCBCEncrypter(blk.block, iv.b, plainText)
              IN  IF mode.panic THEN Panic(<< >>)
                  ELSE
                  LET ciphertext == Take(iv.b, BlockSize) \o mode.out
                      enc == EncodeToString(codec, ciphertext)
                  IN  IF enc.panic THEN Panic(<< >>)
                      ELSE Ret(enc.s, Nil, ciphertext))

\* cbc.Decrypt that takes a ciphertext of one block for too short
cbcDecrypt_oneBlockTooShort(c, cipherText, codec) ==
    recoverFromPanic(
      LET dec == DecodeString(codec, cipherText)
      IN  IF dec.panic THEN Panic(<< >>)
          ELSE IF dec.err # Nil THEN Ret(<< >>, dec.err, << >>)
          ELSE
          LET key == KeyBytes(c.key)
          IN  IF key.panic THEN Panic(<< >>)
              ELSE
              LET blk == aesNewCipher(key.b)
              IN  IF blk.err # Nil THEN Ret(<< >>, blk.err, << >>)
                  ELSE IF Len(dec.b) <= BlockSize THEN Ret(<< >>, ErrCipherTextTooShort, << >>)
                  ELSE IF Len(dec.b) % BlockSize # 0
                  THEN Ret(<< >>, ErrCipherTextBlockSize, << >>)
                  ELSE
                  LET iv == Take(dec.b, BlockSize)
                      mode == NewCBCDecrypter(blk.block, iv, Drop(dec.b, BlockSize))
                  IN  IF mode.panic THEN Panic(<< >>)
                      ELSE Ret(mode.out, Nil, << >>))

\* cbc.Decrypt that decrypts under the instance's IV, not the first block
cbcDecrypt_instanceIv(c, cipherText, codec) ==
    recoverFromPanic(
      LET dec == DecodeString(codec, cipherText)
      IN  IF dec.panic THEN Panic(<< >>)
          ELSE IF dec.err # Nil THEN Ret(<< >>, dec.err, << >>)
          ELSE
          LET key == KeyBytes(c.key)
              iv  == KeyBytes(c.iv)
          IN  IF key.panic \/ iv.panic THEN Panic(<< >>)
              ELSE
              LET blk == aesNewCipher(key.b)
              IN  IF blk.err # Nil THEN Ret(<< >>, blk.err, << >>)
                  ELSE IF Len(dec.b) < BlockSize THEN Ret(<< >>, ErrCipherTextTooShort, << >>)
                  ELSE IF Len(dec.b) % BlockSize # 0
                  THEN Ret(<< >>, ErrCipherTextBlockSize, << >>)
                  ELSE
                  LET mode == NewCBCDecrypter(blk.block, iv.b, Drop(dec.b, BlockSize))
                  IN  IF mode.panic THEN Panic(<< >>)
                      ELSE Ret(mode.out, Nil, << >>))

\* func (c *cbc) Decrypt(cipherText string) (plainText string, err error)
cbcDecrypt(c, cipherText, codec) ==
    recoverFromPanic(
      LET dec == DecodeString(codec, cipherText)
      IN  IF dec.panic THEN Panic(<< >>)
          ELSE IF dec.err # Nil THEN Ret(<< >>, dec.err, << >>)
          ELSE
          LET key == KeyBytes(c.key)
          IN  IF key.panic THEN Panic(<< >>)
              ELSE
              LET blk == aesNewCipher(key.b)
              IN  IF blk.err # Nil THEN Ret(<< >>, blk.err, << >>)
                  ELSE IF Len(dec.b) < BlockSize THEN Ret(<< >>, ErrCipherTextTooShort, << >>)
                  ELSE IF Len(dec.b) % BlockSize # 0
                  THEN Ret(<< >>, ErrCipherTextBlockSize, << >>)
                  ELSE
                  LET iv == Take(dec.b, BlockSize)
                      mode == NewCBCDecrypter(blk.block, iv, Drop(dec.b, BlockSize))
                  IN  IF mode.panic THEN Panic(<< >>)
                      ELSE Ret(mode.out, Nil, << >>))

\* simpleCBC.Encrypt that pads only a plaintext that needs it
simpleCBCEncrypt_padIfMisaligned(c, plainText, codec) ==
    recoverFromPanic(
      LET padded == Pad(BlockSize, plainText)
      IN  IF padded.panic THEN Panic(<< >>)
          ELSE IF Len(plainText) % BlockSize = 0 THEN cbcEncrypt(c, plainText, codec)
          ELSE cbcEncrypt(c, padded.out, codec))

\* func (c *simpleCBC) Encrypt(plainText string) (cipherText string, err error)
simpleCBCEncrypt(c, plainText, codec) ==
    recoverFromPanic(
      LET padded == Pad(BlockSize, plainText)
      IN  IF padded.panic THEN Panic(<< >>)
          ELSE cbcEncrypt(c, padded.out, codec))

\* func (c *simpleCBC) Decrypt(cipherText string) (plainText string, err error)
simpleCBCDecrypt(c, cipherText, codec) ==
    recoverFromPanic(
      LET padded == cbcDecrypt(c, cipherText, codec)
      IN  IF padded.err # Nil THEN Faulted(Ret(<< >>, padded.err, << >>), padded)
          ELSE
          LET plain == Unpad(BlockSize, padded.out)
          IN  IF plain.panic THEN Panic(<< >>)
              ELSE Ret(plain.out, plain.err, << >>))

\* ------------------------------------------------------------------------
\* The stream-to-string adapter (streamToBlock)
\* ------------------------------------------------------------------------
\* streamToBlock.Encrypt that drops the error of EncryptStream
streamToBlockEncrypt_errorDropped(s, plainText, codec) ==
    recoverFromPanic(
      LET r == steamEncryptStream(s, Reader(plainText, FALSE), Buffer)
      IN  IF r.panic THEN Panic(<< >>)
          ELSE
          LET enc == EncodeToString(codec, r.out)
          IN  IF enc.panic THEN Panic(<< >>)
              ELSE Faulted(Ret(enc.s, Nil, r.out), r))

\* func (s *streamToBlock) Encrypt(plainText string) (cipherText string, err error)
streamToBlockEncrypt(s, plainText, codec) ==
    recoverFromPanic(
      LET r == steamEncryptStream(s, Reader(plainText, FALSE), Buffer)
      IN  IF r.panic THEN Panic(<< >>)
          ELSE IF r.err # Nil THEN Faulted(Ret(<< >>, r.err, << >>), r)
          ELSE
          LET enc == EncodeToString(codec, r.out)
          IN  IF enc.panic THEN Panic(<< >>)
              ELSE Ret(enc.s, Nil, r.out))

\* func (s *streamToBlock) Decrypt(cipherText string) (plainText string, err error)
streamToBlockDecrypt(s, cipherText, codec) ==
    recoverFromPanic(
      LET dec == DecodeString(codec, cipherText)
      IN  IF dec.panic THEN Panic(<< >>)
          ELSE IF dec.err # Nil THEN Ret(<< >>, dec.err, << >>)
          ELSE
          LET r == steamDecryptStream(s, Reader(dec.b, FALSE), Buffer)
          IN  IF r.panic THEN Panic(<< >>)
              ELSE IF r.err # Nil THEN Faulted(Ret(<< >>, r.err, << >>), r)
              ELSE Ret(r.out, Nil, << >>))

\* ------------------------------------------------------------------------
\* GCM (gcm.Encrypt, gcm.Decrypt)
\* ------------------------------------------------------------------------
\* cipher.NewGCM(block): fails only for a block size other than 16
cipherNewGCM(block) == [err |-> Nil, block |-> block]

\* gcm.Encrypt that puts the nonce ahead of the seal output
gcmEncrypt_nonceEmbedded(g, plainText, codec) ==
    recoverFromPanic(
      LET key   == KeyBytes(g.key)
          nonce == KeyBytes(g.iv)
      IN  IF key.panic \/ nonce.panic THEN Panic(<< >>)
          ELSE
          LET blk == aesNewCipher(key.b)
          IN  IF blk.err # Nil THEN Ret(<< >>, blk.err, << >>)
              ELSE
              LET sealed == gcmSeal(blk.block, nonce.b, plainText)
              IN  IF sealed.panic THEN Panic(<< >>)
                  ELSE
                  LET enc == EncodeToString(codec, nonce.b \o sealed.out)
                  IN  IF enc.panic THEN Panic(<< >>)
                      ELSE Ret(enc.s, Nil, nonce.b \o sealed.out))

\* func (g *gcm) Encrypt(plainText string) (cipherText string, err error)
gcmEncrypt(g, plainText, codec) ==
    recoverFromPanic(
      LET key   == KeyBytes(g.key)
          nonce == KeyBytes(g.iv)
      IN  IF key.panic \/ nonce.panic THEN Panic(<< >>)
          ELSE
          LET blk == aesNewCipher(key.b)
          IN  IF blk.err # Nil THEN Ret(<< >>, blk.err, << >>)
              ELSE
              LET aesgcm == cipherNewGCM(blk.block)
              IN  IF aesgcm.err # Nil THEN Ret(<< >>, aesgcm.err, << >>)
                  ELSE
                  LET sealed == gcmSeal(aesgcm.block, nonce.b, plainText)
                  IN  IF sealed.panic THEN Panic(<< >>)
                      ELSE
                      LET enc == EncodeToString(codec, sealed.out)
                      IN  IF enc.panic THEN Panic(<< >>)
                          ELSE Ret(enc.s, Nil, sealed.out))

\* gcm.Decrypt that returns what Open returned without looking at its error
gcmDecrypt_openErrorDropped(g, cipherText, codec) ==
    recoverFromPanic(
      LET dec == DecodeString(codec, cipherText)
      IN  IF dec.panic THEN Panic(<< >>)
          ELSE IF dec.err # Nil THEN Ret(<< >>, dec.err, << >>)
          ELSE
          LET key   == KeyBytes(g.key)
              nonce == KeyBytes(g.iv)
          IN  IF key.panic \/ nonce.panic THEN Panic(<< >>)
              ELSE
              LET blk == aesNewCipher(key.b)
              IN  IF blk.err # Nil THEN Ret(<< >>, blk.err, << >>)
                  ELSE
                  LET opened == gcmOpen(blk.block, nonce.b, dec.b)
                  IN  IF opened.panic THEN Panic(<< >>)
                      ELSE Ret(opened.out, Nil, << >>))

\* func (g *gcm) Decrypt(cipherText string) (plainText string, err error)
gcmDecrypt(g, cipherText, codec) ==
    recoverFromPanic(
      LET dec == DecodeString(codec, cipherText)
      IN  IF dec.panic THEN Panic(<< >>)
          ELSE IF dec.err # Nil THEN Ret(<< >>, dec.err, << >>)
          ELSE
          LET key   == KeyBytes(g.key)
              nonce == KeyBytes(g.iv)
          IN  IF key.panic \/ nonce.panic THEN Panic(<< >>)
              ELSE
              LET blk == aesNewCipher(key.b)
              IN  IF blk.err # Nil THEN Ret(<< >>, blk.err, << >>)
                  ELSE
                  LET aesgcm == cipherNewGCM(blk.block)
                  IN  IF aesgcm.err # Nil THEN Ret(<< >>, aesgcm.err, << >>)
                      ELSE
                      LET opened == gcmOpen(aesgcm.block, nonce.b, dec.b)
                      IN  IF opened.panic THEN Panic(<< >>)
                          ELSE IF opened.err # Nil THEN Ret(<< >>, opened.err, << >>)
                          ELSE Ret(opened.out, Nil, << >>))

\* ------------------------------------------------------------------------
\* The Cipher and Stream interfaces: dispatch on the implementing type
\* ------------------------------------------------------------------------
\* The keys a method reads, in the order of its calls of Bytes(): Encrypt and
\* EncryptStream read the key and the IV or nonce first of all; the Decrypt
\* methods decode the ciphertext first and return when that fails; cbc.Decrypt
\* and steam.DecryptStream read the key alone
decodes(cipherText, codec) ==
    LET dec == DecodeString(codec, cipherText) IN ~dec.panic /\ dec.err = Nil

cbcReads(c, op, input, codec) ==
    IF op = "Encrypt" THEN <<c.key, c.iv>>
    ELSE IF decodes(input, codec) THEN <<c.key>>
    ELSE << >>

\* gcm that reads the nonce once, when it is constructed
gcmReads_nonceAtConstruction(g, op, input, codec) ==
    IF op = "Encrypt" \/ decodes(input, codec) THEN <<g.key>> ELSE << >>

gcmReads(g, op, input, codec) ==
    IF op = "Encrypt" \/ decodes(input, codec) THEN <<g.key, g.iv>> ELSE << >>

steamReads(s, op, input, codec) ==
    IF op \in {"Encrypt", "EncryptStream"} THEN <<s.key, s.iv>>
    ELSE IF op = "DecryptStream" \/ decodes(input, codec) THEN <<s.key>>
    ELSE << >>

Reads(c, op, input, codec) ==
    IF c.kind \in {"cbc", "simpleCBC"} THEN cbcReads(c, op, input, codec)
    ELSE IF c.kind = "gcm" THEN gcmReads(c, op, input, codec)
    ELSE steamReads(c, op, input, codec)

\* The calls of scrypt.Key a method makes: keyGen.Bytes() makes one at every
\* call, a keyGen has no field to keep the result in; the other keys make
\* none, and Bytes() of a nil key panics, which ends the method
Derivations(c, op, input, codec) ==
    LET keys == Reads(c, op, input, codec)
    IN  Cardinality({i \in 1 .. Len(keys) :
                        /\ keys[i].kind = "keyGen"
                        /\ \A j \in 1 .. (i - 1) : keys[j].kind # "nil"})

Encrypt(c, plainText, codec) ==
    IF c.kind = "cbc" THEN cbcEncrypt(c, plainText, codec)
    ELSE IF c.kind = "simpleCBC" THEN simpleCBCEncrypt(c, plainText, codec)
    ELSE IF c.kind = "gcm" THEN gcmEncrypt(c, plainText, codec)
    ELSE streamToBlockEncrypt(c, plainText, codec)

Decrypt(c, cipherText, codec) ==
    IF c.kind = "cbc" THEN cbcDecrypt(c, cipherText, codec)
    ELSE IF c.kind = "simpleCBC" THEN simpleCBCDecrypt(c, cipherText, codec)
    ELSE IF c.kind = "gcm" THEN gcmDecrypt(c, cipherText, codec)
    ELSE streamToBlockDecrypt(c, cipherText, codec)

\* ------------------------------------------------------------------------
\* Inputs of the model
\* ------------------------------------------------------------------------
Bytes(n, a, b) == [i \in 1..n |-> (a * i + b) % 256]

\* raw keys of the three AES sizes, and one of no AES size
K16 == bytesKey(Bytes(Aes128, 7, 1))
K24 == bytesKey(Bytes(Aes192, 11, 3))
K32 == stringKey(Bytes(Aes256, 13, 5))
KBad == bytesKey(Bytes(6, 17, 2))

\* 16-byte IVs and 12-byte nonces; each is of the wrong length for the
\* modes that want the other
Iv1 == bytesKey(Bytes(BlockSize, 1, 200))
Iv2 == bytesKey(Bytes(BlockSize, 0, 255))
Nonce1 == bytesKey(Bytes(NonceSize, 3, 100))
Nonce2 == stringKey(Bytes(NonceSize, 5, 9))

ValidKeys == {K16, K24, K32}

\* the (key, iv) arguments given to a New constructor whose valid IV or
\* nonce is v and for which w has the wrong length
Args(v, w) ==
    {<<k, v>> : k \in ValidKeys}
    \cup {<<K16, w>>, <<KBad, v>>, <<KBad, w>>, <<nilKey, v>>, <<K16, nilKey>>}

IvArgs == Args(Iv1, Nonce1)

NonceArgs == Args(Nonce1, Iv1)

\* the IV or nonce a second instance is given in place of the first one's
OtherIvs == {Iv2, Nonce2}

Passphrase == <<112, 119>>

NoncePassphrases == {<<112, 119>>, <<110>>}

Salts == {<<51, 99, 55, 98>>, <<78, 97, 67, 108>>}

initialSalt == <<51, 99, 55, 98>>

\* what rand.Read fills the IV with
RandomIvs == {Iv1, Iv2}

\* fmt.Sprint(mathrand.Float64(), time.Now()) when rand.Read fails
ClockPassphrase == <<48, 46, 54>>

PlainLens == {0, 5, BlockSize * MaxBlocks, BlockSize * MaxBlocks + 5}

Plaintexts == {Bytes(n, 5, 65) : n \in PlainLens}

\* strings that no encryption returned: two that are too short, and "00..0"
\* of 64 characters, which decodes to whole blocks under either codec
Junk == {<<122, 122>>, <<97, 98, 99>>, Repeat(48, 4 * BlockSize)}

\* ------------------------------------------------------------------------
\* State
\* ------------------------------------------------------------------------
VARIABLES
    DefaultSalt,         \* the string DefaultSalt() returns
    DefaultStringCodec,  \* the codec in DefaultStringCodec
    call,                \* the constructor call the instances come from
    cipher,              \* the instance the call returned
    another,             \* a second instance
    kept,                \* the ciphertext the caller holds, and where it came from
    last,                \* the latest operation and its result
    newKey,              \* the Key a key constructor returned, and the call that made it
    bytes,               \* what the calls of key.Bytes() returned, in order
    pad,                 \* the latest call of package pkcs7 and its result
    heap,                \* the backing arrays of the byte slices, by address
    held,                \* a Key made by Bytes(b) or String(s), and where its bytes are
    got,                 \* the slices the calls of held.Bytes() returned, in order
    fallback,            \* what keyGen.Bytes() returned when scrypt.Key failed
    threads              \* the calls that run concurrently, and how far each one is

\* the variables of a session with cipher instances, with a derived key, and
\* with package pkcs7
keyVars == <<newKey, bytes>>

padVars == <<pad>>

\* the variables of a session that writes to the slices of a wrapped key, and
\* of a session with concurrent calls
sliceVars == <<heap, held, got>>

otherVars == <<sliceVars, fallback, threads>>

vars == <<DefaultSalt, DefaultStringCodec, call, cipher, another, kept, last, keyVars, padVars, otherVars>>

NoInstance == Instance("none", nilKey, nilKey, "none")

NoCall == [ctor |-> "none", a |-> nilKey, b |-> nilKey]

NoResult == Ret(<< >>, Nil, << >>)

NoKept == [slot |-> 0, plain |-> << >>, res |-> NoResult, codec |-> "none"]

Idle == [op |-> "idle", slot |-> 0, input |-> << >>, how |-> "none", codec |-> "none",
         derived |-> 0, res |-> NoResult]

\* no key constructor was called yet
NoKey == [ctor |-> "none", passphrase |-> << >>, len |-> 0, options |-> << >>, k |-> nilKey]

\* no function of package pkcs7 was called yet
NoPad == [fn |-> "none", n |-> 0, in |-> << >>, how |-> "none", data |-> << >>,
          res |-> [panic |-> FALSE, out |-> << >>, err |-> Nil]]

\* the addresses of the backing arrays: the caller's slice or string, and the
\* arrays the conversions []byte(k) allocate
\* how many times Bytes() is called on one Key
MaxBytesCalls == 2

Addrs == 1 .. (MaxBytesCalls + 1)

CallerAddr == CHOOSE a \in Addrs : \A b \in Addrs : a <= b

\* no array is allocated yet, no Key is wrapped yet
NoHeap == [a \in Addrs |-> << >>]

NoHeld == [kind |-> "none", at |-> 0]

\* keyGen.Bytes() was not called with a failing scrypt.Key yet
NoFallback == [done |-> FALSE, b |-> << >>]

\* the goroutines that call concurrently; none has called yet
Tids == {1, 2}

IdleThread == [pc |-> "idle", op |-> "none", slot |-> 0, input |-> << >>,
               hasKeys |-> FALSE, key |-> nilKey, iv |-> nilKey,
               hasCodec |-> FALSE, codec |-> "none",
               alone |-> NoResult, res |-> NoResult]

NoThreads == [t \in Tids |-> IdleThread]

Slot(i) == IF i = 1 THEN cipher ELSE another

\* the latest operation ran on a sink that fails ("short") or on a source
\* that ends in a read error ("broken")
IoFails == last.how \in {"short", "broken"}

\* the session has come to its last kind of step: an encryption repeated on
\* the instance that made the kept ciphertext, or an operation whose sink or
\* source fails
Settled == last.how = "again" \/ IoFails

IsCipher(c) == c.kind \in {"cbc", "simpleCBC", "gcm", "streamToBlock"}

IsStream(c) == c.kind = "steam"

\* DefaultStringCodec was assigned after the kept ciphertext was encoded
Recoded == kept.slot # 0 /\ IsCipher(Slot(kept.slot)) /\ DefaultStringCodec # kept.codec

IsSimple(ctor) ==
    ctor \in {"SimpleCBC", "SimpleCFB", "SimpleOFB", "SimpleCTR", "SimpleGCM",
              "SimpleCFBStream", "SimpleOFBStream", "SimpleCTRStream"}

UsesRandomIv(ctor) == IsSimple(ctor) /\ ctor # "SimpleGCM"

Init ==
    /\ DefaultSalt = initialSalt
    /\ DefaultStringCodec = HexCodec
    /\ call = NoCall
    /\ cipher = NoInstance
    /\ another = NoInstance
    /\ kept = NoKept
    /\ last = Idle
    /\ newKey = NoKey
    /\ bytes = << >>
    /\ pad = NoPad
    /\ heap = NoHeap
    /\ held = NoHeld
    /\ got = << >>
    /\ fallback = NoFallback
    /\ threads = NoThreads

\* ------------------------------------------------------------------------
\* The package-level variables are assigned
\* ------------------------------------------------------------------------
\* DefaultSalt = func() string { return s }; an assignment that no later
\* constructor call reads is left out
SetDefaultSalt ==
    /\ call.ctor = "none" \/ (IsSimple(call.ctor) /\ another.kind = "none")
    /\ last.op \notin {"Decrypt", "DecryptStream"}
    /\ ~Settled /\ ~Recoded
    /\ \E s \in Salts : s # DefaultSalt /\ DefaultSalt' = s
    /\ UNCHANGED <<otherVars, keyVars, padVars, DefaultStringCodec, call, cipher, another, kept, last>>

\* DefaultStringCodec = c, before the first operation, or once, to another
\* codec, after the first Encrypt of a session with one instance returned a
\* ciphertext; an assignment that no operation reads (a Stream encodes
\* nothing) is left out
SetDefaultStringCodec ==
    /\ IsCipher(cipher)
    /\ another.kind = "none"
    /\ \E c \in Codecs :
         /\ c # DefaultStringCodec
         /\ \/ last.op = "idle"
            \/ /\ last.op = "Encrypt" /\ last.how = "plain"
               /\ kept.slot = 1 /\ ~Recoded
               /\ c # NilCodec
         /\ DefaultStringCodec' = c
    /\ UNCHANGED <<otherVars, keyVars, padVars, DefaultSalt, call, cipher, another, kept, last>>

\* ------------------------------------------------------------------------
\* Constructors
\* ------------------------------------------------------------------------
\* NewRandomIv that falls back on NewNonce when rand.Read fails
NewRandomIv_nonceFallback(salt) ==
    {bytesKey(r.b) : r \in RandomIvs} \cup {NewNonce(ClockPassphrase, salt)}

\* func NewRandomIv() Key
NewRandomIv(salt) == {bytesKey(r.b) : r \in RandomIvs} \cup {NewIv(ClockPassphrase, salt)}

\* the instance a constructor call returns; riv is what NewRandomIv returned
Construct(c, salt, riv) ==
    CASE c.ctor = "NewCBC" -> NewCBC(c.a, c.b)
      [] c.ctor = "NewCFB" -> NewCFB(c.a, c.b)
      [] c.ctor = "NewOFB" -> NewOFB(c.a, c.b)
      [] c.ctor = "NewCTR" -> NewCTR(c.a, c.b)
      [] c.ctor = "NewGCM" -> NewGCM(c.a, c.b)
      [] c.ctor = "NewCFBStream" -> NewCFBStream(c.a, c.b)
      [] c.ctor = "NewOFBStream" -> NewOFBStream(c.a, c.b)
      [] c.ctor = "NewCTRStream" -> NewCTRStream(c.a, c.b)
      [] c.ctor = "SimpleCBC" -> SimpleCBC(c.a.b, salt, riv)
      [] c.ctor = "SimpleCFB" -> SimpleCFB(c.a.b, salt, riv)
      [] c.ctor = "SimpleOFB" -> SimpleOFB(c.a.b, salt, riv)
      [] c.ctor = "SimpleCTR" -> SimpleCTR(c.a.b, salt, riv)
      [] c.ctor = "SimpleGCM" -> SimpleGCM(c.a.b, c.b.b, salt)
      [] c.ctor = "SimpleCFBStream" -> SimpleCFBStream(c.a.b, salt, riv)
      [] c.ctor = "SimpleOFBStream" -> SimpleOFBStream(c.a.b, salt, riv)
      [] c.ctor = "SimpleCTRStream" -> SimpleCTRStream(c.a.b, salt, riv)

\* cipher := ctor(key, iv): the first instance of a run
New(ctor, args) ==
    \E p \in args :
        /\ call' = [ctor |-> ctor, a |-> p[1], b |-> p[2]]
        /\ cipher' = Construct(call', DefaultSalt, nilKey)

\* cipher := ctor(keyPassphrase)
Simple(ctor) ==
    \E riv \in NewRandomIv(DefaultSalt) :
        /\ call' = [ctor |-> ctor, a |-> stringKey(Passphrase), b |-> nilKey]
        /\ cipher' = Construct(call', DefaultSalt, riv)

DoNewCBC ==
    /\ cipher.kind = "none"
    /\ New("NewCBC", IvArgs)
    /\ UNCHANGED <<otherVars, keyVars, padVars, DefaultSalt, DefaultStringCodec, another, kept, last>>

DoNewCFB ==
    /\ cipher.kind = "none"
    /\ New("NewCFB", IvArgs)
    /\ UNCHANGED <<otherVars, keyVars, padVars, DefaultSalt, DefaultStringCodec, another, kept, last>>

DoNewOFB ==
    /\ cipher.kind = "none"
    /\ New("NewOFB", IvArgs)
    /\ UNCHANGED <<otherVars, keyVars, padVars, DefaultSalt, DefaultStringCodec, another, kept, last>>

DoNewCTR ==
    /\ cipher.kind = "none"
    /\ New("NewCTR", IvArgs)
    /\ UNCHANGED <<otherVars, keyVars, padVars, DefaultSalt, DefaultStringCodec, another, kept, last>>

DoNewCFBStream ==
    /\ cipher.kind = "none"
    /\ New("NewCFBStream", IvArgs)
    /\ UNCHANGED <<otherVars, keyVars, padVars, DefaultSalt, DefaultStringCodec, another, kept, last>>

DoNewOFBStream ==
    /\ cipher.kind = "none"
    /\ New("NewOFBStream", IvArgs)
    /\ UNCHANGED <<otherVars, keyVars, padVars, DefaultSalt, DefaultStringCodec, another, kept, last>>

DoNewCTRStream ==
    /\ cipher.kind = "none"
    /\ New("NewCTRStream", IvArgs)
    /\ UNCHANGED <<otherVars, keyVars, padVars, DefaultSalt, DefaultStringCodec, another, kept, last>>

DoNewGCM ==
    /\ cipher.kind = "none"
    /\ New("NewGCM", NonceArgs)
    /\ UNCHANGED <<otherVars, keyVars, padVars, DefaultSalt, DefaultStringCodec, another, kept, last>>

DoSimpleCBC ==
    /\ cipher.kind = "none"
    /\ Simple("SimpleCBC")
    /\ UNCHANGED <<otherVars, keyVars, padVars, DefaultSalt, DefaultStringCodec, another, kept, last>>

DoSimpleCFB ==
    /\ cipher.kind = "none"
    /\ Simple("SimpleCFB")
    /\ UNCHANGED <<otherVars, keyVars, padVars, DefaultSalt, DefaultStringCodec, another, kept, last>>

DoSimpleOFB ==
    /\ cipher.kind = "none"
    /\ Simple("SimpleOFB")
    /\ UNCHANGED <<otherVars, keyVars, padVars, DefaultSalt, DefaultStringCodec, another, kept, last>>

DoSimpleCTR ==
    /\ cipher.kind = "none"
    /\ Simple("SimpleCTR")
    /\ UNCHANGED <<otherVars, keyVars, padVars, DefaultSalt, DefaultStringCodec, another, kept, last>>

DoSimpleCFBStream ==
    /\ cipher.kind = "none"
    /\ Simple("SimpleCFBStream")
    /\ UNCHANGED <<otherVars, keyVars, padVars, DefaultSalt, DefaultStringCodec, another, kept, last>>

DoSimpleOFBStream ==
    /\ cipher.kind = "none"
    /\ Simple("SimpleOFBStream")
    /\ UNCHANGED <<otherVars, keyVars, padVars, DefaultSalt, DefaultStringCodec, another, kept, last>>

DoSimpleCTRStream ==
    /\ cipher.kind = "none"
    /\ Simple("SimpleCTRStream")
    /\ UNCHANGED <<otherVars, keyVars, padVars, DefaultSalt, DefaultStringCodec, another, kept, last>>

\* cipher := SimpleGCM(keyPassphrase, noncePassphrase)
DoSimpleGCM ==
    /\ cipher.kind = "none"
    /\ \E np \in NoncePassphrases :
         /\ call' = [ctor |-> "SimpleGCM", a |-> stringKey(Passphrase), b |-> stringKey(np)]
         /\ cipher' = Construct(call', DefaultSalt, nilKey)
    /\ UNCHANGED <<otherVars, keyVars, padVars, DefaultSalt, DefaultStringCodec, another, kept, last>>

\* another := the same constructor call again, under the DefaultSalt now in
\* force and with its own random IV
DoAnother ==
    /\ cipher.kind # "none"
    /\ another.kind = "none"
    /\ last.op \notin {"Decrypt", "DecryptStream"}
    /\ ~Settled /\ ~Recoded
    /\ \E riv \in (IF UsesRandomIv(call.ctor) THEN NewRandomIv(DefaultSalt) ELSE {nilKey}) :
         another' = Construct(call, DefaultSalt, riv)
    /\ UNCHANGED <<otherVars, keyVars, padVars, DefaultSalt, DefaultStringCodec, call, cipher, kept, last>>

\* another := the same New constructor with the same key and another IV or nonce
DoAnotherIv ==
    /\ cipher.kind # "none"
    /\ another.kind = "none"
    /\ ~IsSimple(call.ctor)
    /\ last.op \notin {"Decrypt", "DecryptStream"}
    /\ ~Settled /\ ~Recoded
    /\ \E iv \in OtherIvs :
         another' = Construct([call EXCEPT !.b = iv], DefaultSalt, nilKey)
    /\ UNCHANGED <<otherVars, keyVars, padVars, DefaultSalt, DefaultStringCodec, call, cipher, kept, last>>

\* ------------------------------------------------------------------------
\* Operations
\* ------------------------------------------------------------------------
Op(op, slot, input, how, res) ==
    [op |-> op, slot |-> slot, input |-> input, how |-> how,
     codec |-> DefaultStringCodec,
     derived |-> Derivations(Slot(slot), op, input, DefaultStringCodec), res |-> res]

\* the instance that produced the kept ciphertext
Producer == Slot(kept.slot)

\* the caller keeps the ciphertext of a successful encryption
Keep(slot, plain, res, codec) ==
    IF res.err = Nil /\ ~res.panic
    THEN [slot |-> slot, plain |-> plain, res |-> res, codec |-> codec]
    ELSE kept

\* a call after the first one: in a session with one instance, on the
\* instance whose first ciphertext the caller holds, after the first
\* encryption or after that ciphertext was decrypted; with the same plaintext
\* or, once, with another one in between
Again(slot, p) ==
    /\ kept.slot = slot
    /\ another.kind = "none"
    /\ \/ last.op \in {"Encrypt", "EncryptStream"} /\ ~IoFails
       \/ last.op \in {"Decrypt", "DecryptStream"} /\ last.how = "kept" /\ last.slot = slot
    /\ last.how = "again" => (last.input # kept.plain /\ p = kept.plain)
    /\ Recoded => p = kept.plain

\* Encrypt that leaves the last block of its ciphertext in the instance as
\* the IV of the next call
DoEncrypt_ivChained ==
    /\ \E slot \in {1, 2}, p \in Plaintexts :
         /\ IsCipher(Slot(slot))
         /\ last.op = "idle" \/ Again(slot, p)
         /\ \E res \in {Encrypt(Slot(slot), p, DefaultStringCodec)} :
              /\ IF last.op = "idle"
                 THEN /\ last' = Op("Encrypt", slot, p, "plain", res)
                      /\ kept' = Keep(slot, p, res, DefaultStringCodec)
                 ELSE /\ last' = Op("Encrypt", slot, p, "again", res)
                      /\ kept' = kept
              /\ LET chained == IF res.err = Nil /\ Len(res.raw) >= BlockSize
                                THEN [Slot(slot) EXCEPT
                                        !.iv = bytesKey(Drop(res.raw, Len(res.raw) - BlockSize))]
                                ELSE Slot(slot)
                 IN  /\ cipher' = IF slot = 1 THEN chained ELSE cipher
                     /\ another' = IF slot = 2 THEN chained ELSE another
    /\ UNCHANGED <<otherVars, keyVars, padVars, DefaultSalt, DefaultStringCodec, call>>

\* ciphertext, err := c.Encrypt(plaintext): the first call, whose ciphertext
\* the caller keeps, or a later one
DoEncrypt ==
    /\ \E slot \in {1, 2}, p \in Plaintexts :
         /\ IsCipher(Slot(slot))
         /\ last.op = "idle" \/ Again(slot, p)
         /\ \E res \in {Encrypt(Slot(slot), p, DefaultStringCodec)} :
              IF last.op = "idle"
              THEN /\ last' = Op("Encrypt", slot, p, "plain", res)
                   /\ kept' = Keep(slot, p, res, DefaultStringCodec)
              ELSE /\ last' = Op("Encrypt", slot, p, "again", res)
                   /\ kept' = kept
    /\ UNCHANGED <<otherVars, keyVars, padVars, DefaultSalt, DefaultStringCodec, call, cipher, another>>

\* the numbers of bytes a failing sink accepts before it fails
SinkCaps == {0, 5, BlockSize, BlockSize + 5}

\* the sinks handed to the first EncryptStream of a session with one
\* instance: a bytes.Buffer, or a writer that fails; every other call
\* writes to a bytes.Buffer
Sinks(slot) ==
    IF last.op = "idle" /\ slot = 1 /\ another.kind = "none"
    THEN {Buffer} \cup {Writer(cap, TRUE) : cap \in SinkCaps}
    ELSE {Buffer}

\* the sources of data handed along with sink w: a bytes.Reader, or in a
\* session with one instance and with a bytes.Buffer as sink, a reader that
\* delivers the data and then a read error
Sources(slot, data, w) ==
    IF slot = 1 /\ another.kind = "none" /\ ~w.fails
    THEN {Reader(data, FALSE), Reader(data, TRUE)}
    ELSE {Reader(data, FALSE)}

\* err := s.EncryptStream(bytes.NewReader(plaintext), ciphertextWriter): the
\* first call, whose ciphertext the caller keeps when the sink is a buffer,
\* or a later one
DoEncryptStream ==
    /\ \E slot \in {1, 2}, p \in Plaintexts :
         /\ IsStream(Slot(slot))
         /\ last.op = "idle" \/ Again(slot, p)
         /\ \E w \in Sinks(slot) :
              \E src \in (IF last.op = "idle" THEN Sources(slot, p, w)
                          ELSE {Reader(p, FALSE)}) :
                 \E res \in {steamEncryptStream(Slot(slot), src, w)} :
                    IF last.op # "idle"
                    THEN /\ last' = Op("EncryptStream", slot, p, "again", res)
                         /\ kept' = kept
                    ELSE IF w.fails \/ src.fails
                    THEN /\ last' = Op("EncryptStream", slot, p,
                                       IF w.fails THEN "short" ELSE "broken", res)
                         /\ kept' = kept
                    ELSE /\ last' = Op("EncryptStream", slot, p, "plain", res)
                         /\ kept' = Keep(slot, p, res, NopCodec)
    /\ UNCHANGED <<otherVars, keyVars, padVars, DefaultSalt, DefaultStringCodec, call, cipher, another>>

\* one byte of the raw ciphertext changed
Flip(raw, pos, delta) == [raw EXCEPT ![pos] = (@ + delta) % 256]

\* the strings handed to Decrypt: the kept ciphertext, the kept ciphertext
\* with one byte of its raw bytes changed or with its raw bytes cut short,
\* each encoded as the kept one was, and strings no encryption returned
Tampered ==
    LET raw == kept.res.raw
        n == Len(raw)
        flips == {<<n, 128>>, <<n - gcmTagSize, 1>>}
        cuts == {0, 5, BlockSize, n - 1}
    IN  IF kept.slot = 0 THEN {}
        ELSE {[how |-> "flip", raw |-> Flip(raw, f[1], f[2])] : f \in {g \in flips : g[1] >= 1 /\ g[1] <= n}}
             \cup {[how |-> "cut", raw |-> Take(raw, c)] : c \in {d \in cuts : d >= 0 /\ d < n}}

DecryptInputs ==
    (IF kept.slot = 0 THEN {}
     ELSE {[how |-> "kept", s |-> kept.res.out]}
          \cup {[how |-> t.how, s |-> EncodeToString(kept.codec, t.raw).s] : t \in Tampered})
    \cup {[how |-> "junk", s |-> j] : j \in Junk}

\* plaintext, err := c.Decrypt(ciphertext)
DoDecrypt ==
    /\ last.op \in {"idle", "Encrypt"}
    /\ ~Settled
    /\ \E slot \in {1, 2}, i \in DecryptInputs :
         /\ IsCipher(Slot(slot))
         /\ slot = 1 \/ kept.slot = 1
         /\ Recoded => i.how = "kept"
         /\ last' = Op("Decrypt", slot, i.s, i.how, Decrypt(Slot(slot), i.s, DefaultStringCodec))
    /\ UNCHANGED <<otherVars, keyVars, padVars, DefaultSalt, DefaultStringCodec, call, cipher, another, kept>>

\* the sinks handed to DecryptStream of the kept ciphertext in a session
\* with one instance: a bytes.Buffer, or a writer that fails
DecryptSinks(slot) ==
    IF slot = 1 /\ another.kind = "none"
    THEN {Buffer} \cup {Writer(cap, TRUE) : cap \in SinkCaps}
    ELSE {Buffer}

\* err := s.DecryptStream(bytes.NewReader(ciphertext), decryptedWriter)
DoDecryptStream ==
    /\ last.op \in {"idle", "EncryptStream"}
    /\ ~Settled
    /\ \E slot \in {1, 2}, i \in DecryptInputs :
         /\ IsStream(Slot(slot))
         /\ slot = 1 \/ kept.slot = 1
         /\ \E w \in (IF i.how = "kept" THEN DecryptSinks(slot) ELSE {Buffer}) :
              \E src \in (IF i.how = "kept" THEN Sources(slot, i.s, w)
                          ELSE {Reader(i.s, FALSE)}) :
                 \E res \in {steamDecryptStream(Slot(slot), src, w)} :
                    last' = Op("DecryptStream", slot, i.s,
                               IF w.fails THEN "short"
                               ELSE IF src.fails THEN "broken" ELSE i.how, res)
    /\ UNCHANGED <<otherVars, keyVars, padVars, DefaultSalt, DefaultStringCodec, call, cipher, another, kept>>

Next ==
    \/ SetDefaultSalt
    \/ SetDefaultStringCodec
    \/ DoNewCBC
    \/ DoNewCFB
    \/ DoNewOFB
    \/ DoNewCTR
    \/ DoNewGCM
    \/ DoNewCFBStream
    \/ DoNewOFBStream
    \/ DoNewCTRStream
    \/ DoSimpleCBC
    \/ DoSimpleCFB
    \/ DoSimpleOFB
    \/ DoSimpleCTR
    \/ DoSimpleGCM
    \/ DoSimpleCFBStream
    \/ DoSimpleOFBStream
    \/ DoSimpleCTRStream
    \/ DoAnother
    \/ DoAnotherIv
    \/ DoEncrypt
    \/ DoEncryptStream
    \/ DoDecrypt
    \/ DoDecryptStream

Spec == Init /\ [][Next]_vars

\* ------------------------------------------------------------------------
\* Keys are derived: a key constructor is called, then Bytes() of its result
\* ------------------------------------------------------------------------
KeyPassphrases == {<< >>, <<112, 119>>}

\* the lengths given to NewKey and to WithLen
KeyLens == {-1, 0, 1, NonceSize, Aes128, 20, Aes192, Aes256, 33}

customSalt == <<99, 117, 115, 116>>

KeyGenOptions ==
    {OptLen(n) : n \in KeyLens} \cup {OptSalt(customSalt), OptPassphrase(<<111>>)}

\* no option, one option, two options
OptionLists ==
    {<< >>} \cup {<<o>> : o \in KeyGenOptions}
    \cup {<<o1, o2>> : o1 \in {OptLen(n) : n \in KeyLens}, o2 \in KeyGenOptions}

Made(ctor, passphrase, len, options, k) ==
    [ctor |-> ctor, passphrase |-> passphrase, len |-> len, options |-> options, k |-> k]

\* k := NewKey(passphrase, len, salt)
DoNewKey ==
    /\ newKey.ctor = "none"
    /\ \E p \in KeyPassphrases, n \in KeyLens, s \in Salts :
         newKey' = Made("NewKey", p, n, << >>, NewKey(p, n, s))
    /\ UNCHANGED <<otherVars, DefaultSalt, DefaultStringCodec, call, cipher, another, kept, last, bytes, padVars>>

\* k := NewAesKey(passphrase, options...)
DoNewAesKey ==
    /\ newKey.ctor = "none"
    /\ \E p \in KeyPassphrases, o \in OptionLists :
         newKey' = Made("NewAesKey", p, Aes256, o, NewAesKeyWith(p, o, DefaultSalt))
    /\ UNCHANGED <<otherVars, DefaultSalt, DefaultStringCodec, call, cipher, another, kept, last, bytes, padVars>>

\* k := NewNonce(passphrase, options...)
DoNewNonce ==
    /\ newKey.ctor = "none"
    /\ \E p \in KeyPassphrases, o \in OptionLists :
         newKey' = Made("NewNonce", p, NonceSize, o, NewNonceWith(p, o, DefaultSalt))
    /\ UNCHANGED <<otherVars, DefaultSalt, DefaultStringCodec, call, cipher, another, kept, last, bytes, padVars>>

\* k := NewIv(passphrase, options...)
DoNewIv ==
    /\ newKey.ctor = "none"
    /\ \E p \in KeyPassphrases, o \in OptionLists :
         newKey' = Made("NewIv", p, BlockSize, o, NewIvWith(p, o, DefaultSalt))
    /\ UNCHANGED <<otherVars, DefaultSalt, DefaultStringCodec, call, cipher, another, kept, last, bytes, padVars>>

\* b := k.Bytes()
DoBytes ==
    /\ newKey.ctor # "none"
    /\ Len(bytes) < MaxBytesCalls
    /\ bytes' = Append(bytes, KeyBytes(newKey.k))
    /\ UNCHANGED <<otherVars, DefaultSalt, DefaultStringCodec, call, cipher, another, kept, last, newKey, padVars>>

\* DefaultSalt = func() string { return s }, before the key is made
SetDefaultSaltForKeys ==
    /\ newKey.ctor = "none"
    /\ \E s \in Salts : s # DefaultSalt /\ DefaultSalt' = s
    /\ UNCHANGED <<otherVars, DefaultStringCodec, call, cipher, another, kept, last, keyVars, padVars>>

\* k := NewRandomIv(), with rand.Read succeeding or failing
DoNewRandomIv ==
    /\ newKey.ctor = "none"
    /\ \E k \in NewRandomIv(DefaultSalt) :
         newKey' = Made("NewRandomIv", k.Passphrase, BlockSize, << >>, k)
    /\ UNCHANGED <<otherVars, DefaultSalt, DefaultStringCodec, call, cipher, another, kept, last, bytes, padVars>>

\* b := k.Bytes() on a derived key, in a run where scrypt.Key fails
DoBytesScryptFails ==
    /\ newKey.ctor # "none"
    /\ newKey.k.kind = "keyGen"
    /\ ~fallback.done
    /\ fallback' = [done |-> TRUE, b |-> keyGenBytesOn(newKey.k, scryptFailed)]
    /\ UNCHANGED <<DefaultSalt, DefaultStringCodec, call, cipher, another, kept, last,
                   keyVars, padVars, sliceVars, threads>>

KeyNext ==
    \/ SetDefaultSaltForKeys
    \/ DoNewRandomIv
    \/ DoBytesScryptFails
    \/ DoNewKey
    \/ DoNewAesKey
    \/ DoNewNonce
    \/ DoNewIv
    \/ DoBytes

KeySpec == Init /\ [][KeyNext]_vars


\* ------------------------------------------------------------------------
\* Package pkcs7 is called: Pad, then Unpad of what Pad returned or of a
\* changed copy of it
\* ------------------------------------------------------------------------
MaxPadSize == 5

\* the block sizes: the small ones, the AES block, the largest, and the two
\* next to the allowed range
PadSizes == (1..MaxPadSize) \cup {BlockSize, 255, 256}

PadLens(n) ==
    IF n <= 1 \/ n >= 256 THEN {0}
    ELSE IF n <= MaxPadSize THEN 0..(3 * n)
    ELSE {0, 1, n - 1, n, n + 1, 3 * n}

\* data of a length: bytes that are no padding of it, and bytes that all
\* look like a padding of one
PadData(n) ==
    UNION {{[i \in 1..l |-> 65 + (i % 7)], [i \in 1..l |-> 1]} : l \in PadLens(n)}

PkcsCall(fn, n, in, how, data, res) ==
    [fn |-> fn, n |-> n, in |-> in, how |-> how, data |-> data,
     res |-> [panic |-> res.panic, out |-> res.out, err |-> res.err]]

\* padded := pkcs7.Pad(n, data)
DoPad ==
    /\ pad.fn = "none"
    /\ \E n \in PadSizes :
         \E data \in PadData(n) :
            LET res == Pad(n, data)
            IN  pad' = PkcsCall("Pad", n, data, "data", data,
                                [panic |-> res.panic, out |-> res.out, err |-> Nil])
    /\ UNCHANGED <<otherVars, DefaultSalt, DefaultStringCodec, call, cipher, another, kept, last, keyVars>>

\* what is handed to Unpad after Pad returned buf: buf itself, buf with its
\* last byte set to 0 or to n + 1, buf without its last byte, buf with the
\* first of several padding bytes changed, nothing, and the data unpadded
UnpadInputs ==
    LET buf == pad.res.out
        l == Len(buf)
        k == IF l > 0 THEN buf[l] ELSE 0
    IN  IF pad.res.panic THEN {[how |-> "empty", in |-> << >>]}
        ELSE {[how |-> "padded", in |-> buf],
              [how |-> "zero", in |-> [buf EXCEPT ![l] = 0]],
              [how |-> "cut", in |-> Take(buf, l - 1)],
              [how |-> "empty", in |-> << >>],
              [how |-> "data", in |-> pad.data]}
             \cup (IF pad.n < 255 THEN {[how |-> "long", in |-> [buf EXCEPT ![l] = pad.n + 1]]}
                   ELSE {})
             \cup (IF k >= 2 THEN {[how |-> "mixed", in |-> [buf EXCEPT ![l - k + 1] = (k + 1) % 256]]}
                   ELSE {})

\* data, err := pkcs7.Unpad(n, buf)
DoUnpad ==
    /\ pad.fn = "Pad"
    /\ \E i \in UnpadInputs :
         pad' = PkcsCall("Unpad", pad.n, i.in, i.how, pad.data, Unpad(pad.n, i.in))
    /\ UNCHANGED <<otherVars, DefaultSalt, DefaultStringCodec, call, cipher, another, kept, last, keyVars>>

PadNext ==
    \/ DoPad
    \/ DoUnpad

PadSpec == Init /\ [][PadNext]_vars

\* ------------------------------------------------------------------------
\* A session with a wrapped key: the caller makes k := Bytes(b) or
\* k := String(s), calls k.Bytes(), and writes to the slices it holds
\* ------------------------------------------------------------------------

\* what the caller puts in b or s, and what it writes later
SliceContents == {<<1, 2>>, <<3, 4, 5>>}

WrittenBytes == {0, 255}

\* k := Bytes(b): bytesKey(b) is a conversion of slice types, k and b share
\* the backing array
DoWrapBytes ==
    /\ held.kind = "none"
    /\ \E b \in SliceContents : heap' = [heap EXCEPT ![CallerAddr] = b]
    /\ held' = [kind |-> "bytesKey", at |-> CallerAddr]
    /\ UNCHANGED <<DefaultSalt, DefaultStringCodec, call, cipher, another, kept, last,
                   keyVars, padVars, got, fallback, threads>>

\* k := String(s): a string is immutable, nobody holds a slice of it
DoWrapString ==
    /\ held.kind = "none"
    /\ \E b \in SliceContents : heap' = [heap EXCEPT ![CallerAddr] = b]
    /\ held' = [kind |-> "stringKey", at |-> CallerAddr]
    /\ UNCHANGED <<DefaultSalt, DefaultStringCodec, call, cipher, another, kept, last,
                   keyVars, padVars, got, fallback, threads>>

\* the slice k.Bytes() returns: bytesKey returns k itself, stringKey returns
\* []byte(k), a copy in a new array
heldBytes(k, fresh) ==
    IF k.kind = "bytesKey" THEN [at |-> k.at, copied |-> FALSE]
    ELSE [at |-> fresh, copied |-> TRUE]

\* r := k.Bytes(); the caller keeps the slice r and remembers what it held
DoHeldBytes ==
    /\ held.kind # "none"
    /\ Len(got) < MaxBytesCalls
    /\ \E r \in {heldBytes(held, CallerAddr + Len(got) + 1)} :
         /\ heap' = IF r.copied THEN [heap EXCEPT ![r.at] = heap[held.at]] ELSE heap
         /\ got' = Append(got, [at |-> r.at, val |-> heap[held.at]])
    /\ UNCHANGED <<DefaultSalt, DefaultStringCodec, call, cipher, another, kept, last,
                   keyVars, padVars, held, fallback, threads>>

\* b[i] = v, on the slice the caller gave to Bytes(b)
DoWriteCaller ==
    /\ held.kind = "bytesKey"
    /\ \E i \in 1 .. Len(heap[CallerAddr]), v \in WrittenBytes :
         /\ heap[CallerAddr][i] # v
         /\ heap' = [heap EXCEPT ![CallerAddr][i] = v]
    /\ UNCHANGED <<DefaultSalt, DefaultStringCodec, call, cipher, another, kept, last,
                   keyVars, padVars, held, got, fallback, threads>>

\* r[i] = v, on a slice a call of k.Bytes() returned
DoWriteReturned ==
    /\ \E j \in 1 .. Len(got) : \E i \in 1 .. Len(heap[got[j].at]), v \in WrittenBytes :
         /\ heap[got[j].at][i] # v
         /\ heap' = [heap EXCEPT ![got[j].at][i] = v]
    /\ UNCHANGED <<DefaultSalt, DefaultStringCodec, call, cipher, another, kept, last,
                   keyVars, padVars, held, got, fallback, threads>>

SliceNext ==
    \/ DoWrapBytes
    \/ DoWrapString
    \/ DoHeldBytes
    \/ DoWriteCaller
    \/ DoWriteReturned

SliceSpec == Init /\ [][SliceNext]_vars

\* ------------------------------------------------------------------------
\* A session with concurrent calls: the instances are constructed, then each
\* goroutine makes one call, on the first instance or on the second.  A call
\* is a sequence of steps: it reads the key and the IV of its instance, it
\* reads DefaultStringCodec (a Cipher method), it computes and returns.  Each
\* goroutine has its own plaintext, ciphertext, source and sink.
\* ------------------------------------------------------------------------

\* one block, so that CBC takes it
ConcPlain == Bytes(BlockSize, 5, 65)

\* the method op of instance c, called alone
Call(op, c, input, codec) ==
    IF op = "Encrypt" THEN Encrypt(c, input, codec)
    ELSE IF op = "Decrypt" THEN Decrypt(c, input, codec)
    ELSE IF op = "EncryptStream" THEN steamEncryptStream(c, Reader(input, FALSE), Buffer)
    ELSE steamDecryptStream(c, Reader(input, FALSE), Buffer)

MethodsOf(c) ==
    IF IsCipher(c) THEN {"Encrypt", "Decrypt"}
    ELSE IF IsStream(c) THEN {"EncryptStream", "DecryptStream"}
    ELSE {}

EncryptOf(op) == IF op \in {"Encrypt", "Decrypt"} THEN "Encrypt" ELSE "EncryptStream"

\* go c.Encrypt(plaintext), go c.Decrypt(ciphertext), and the like for a
\* Stream; the ciphertext is one the instance returned earlier.  The result
\* the call gives when it runs alone, now, is noted.
ThreadStart(t) ==
    /\ threads[t].pc = "idle"
    /\ \E slot \in {1, 2} : \E op \in MethodsOf(Slot(slot)) :
         \E enc \in {Call(EncryptOf(op), Slot(slot), ConcPlain, DefaultStringCodec)} :
           \E input \in {IF op = EncryptOf(op) THEN ConcPlain ELSE enc.out} :
             \E alone \in (IF op = EncryptOf(op) THEN {enc}
                           ELSE {Call(op, Slot(slot), input, DefaultStringCodec)}) :
               threads' = [threads EXCEPT ![t] =
                             [IdleThread EXCEPT !.pc = "called", !.op = op, !.slot = slot,
                                                !.input = input, !.alone = alone]]
    /\ UNCHANGED <<DefaultSalt, DefaultStringCodec, call, cipher, another, kept, last,
                   keyVars, padVars, sliceVars, fallback>>

\* key := c.key.Bytes(); iv := c.iv.Bytes(): first of all in Encrypt and in the
\* Stream methods, after the ciphertext is decoded in Decrypt
ThreadReadKeys(t) ==
    /\ threads[t].pc = "called"
    /\ ~threads[t].hasKeys
    /\ threads[t].op = "Decrypt" =>
          (threads[t].hasCodec /\ decodes(threads[t].input, threads[t].codec))
    /\ threads' = [threads EXCEPT ![t].hasKeys = TRUE,
                                  ![t].key = Slot(threads[t].slot).key,
                                  ![t].iv = Slot(threads[t].slot).iv]
    /\ UNCHANGED <<DefaultSalt, DefaultStringCodec, call, cipher, another, kept, last,
                   keyVars, padVars, sliceVars, fallback>>

\* DefaultStringCodec.DecodeString, first of all in Decrypt;
\* DefaultStringCodec.EncodeToString, at the end of Encrypt
ThreadReadCodec(t) ==
    /\ threads[t].pc = "called"
    /\ threads[t].op \in {"Encrypt", "Decrypt"}
    /\ ~threads[t].hasCodec
    /\ threads[t].op = "Encrypt" => threads[t].hasKeys
    /\ threads' = [threads EXCEPT ![t].hasCodec = TRUE, ![t].codec = DefaultStringCodec]
    /\ UNCHANGED <<DefaultSalt, DefaultStringCodec, call, cipher, another, kept, last,
                   keyVars, padVars, sliceVars, fallback>>

\* the call has read what it reads
ThreadHasRead(t) ==
    /\ threads[t].pc = "called"
    /\ \/ threads[t].hasKeys /\ threads[t].op \in {"EncryptStream", "DecryptStream"}
       \/ threads[t].hasKeys /\ threads[t].hasCodec
       \/ /\ threads[t].op = "Decrypt" /\ threads[t].hasCodec
          /\ ~decodes(threads[t].input, threads[t].codec)

\* the instance as the call read it
ThreadInstance(t) ==
    IF threads[t].hasKeys
    THEN [Slot(threads[t].slot) EXCEPT !.key = threads[t].key, !.iv = threads[t].iv]
    ELSE Slot(threads[t].slot)

\* a return that leaves the last block of the ciphertext in the instance, as
\* the IV of its next encryption
ThreadReturn_ivChained(t) ==
    /\ ThreadHasRead(t)
    /\ \E res \in {Call(threads[t].op, ThreadInstance(t), threads[t].input,
                        threads[t].codec)} :
         /\ threads' = [threads EXCEPT ![t].pc = "done", ![t].res = res]
         /\ LET c == Slot(threads[t].slot)
                chained == IF /\ threads[t].op \in {"Encrypt", "EncryptStream"}
                              /\ res.err = Nil /\ Len(res.raw) >= BlockSize
                           THEN [c EXCEPT !.iv = bytesKey(Drop(res.raw,
                                                              Len(res.raw) - BlockSize))]
                           ELSE c
            IN  /\ cipher' = IF threads[t].slot = 1 THEN chained ELSE cipher
                /\ another' = IF threads[t].slot = 2 THEN chained ELSE another
    /\ UNCHANGED <<DefaultSalt, DefaultStringCodec, call, kept, last,
                   keyVars, padVars, sliceVars, fallback>>

\* the call computes on what it read and returns; it writes to nothing that
\* another call reads
ThreadReturn(t) ==
    /\ ThreadHasRead(t)
    /\ \E res \in {Call(threads[t].op, ThreadInstance(t), threads[t].input,
                        threads[t].codec)} :
         threads' = [threads EXCEPT ![t].pc = "done", ![t].res = res]
    /\ UNCHANGED <<DefaultSalt, DefaultStringCodec, call, cipher, another, kept, last,
                   keyVars, padVars, sliceVars, fallback>>

\* no call is running or has returned: the instances are still being made
NoneCalled == \A t \in Tids : threads[t].pc = "idle"

ConcNext ==
    \/ NoneCalled /\ DoNewCBC
    \/ NoneCalled /\ DoNewGCM
    \/ NoneCalled /\ DoNewCTRStream
    \/ NoneCalled /\ DoSimpleCFB
    \/ NoneCalled /\ DoSimpleGCM
    \/ NoneCalled /\ DoAnother
    \/ \E t \in Tids : ThreadStart(t)
    \/ \E t \in Tids : ThreadReadKeys(t)
    \/ \E t \in Tids : ThreadReadCodec(t)
    \/ \E t \in Tids : ThreadReturn(t)

ConcSpec == Init /\ [][ConcNext]_vars

\* ------------------------------------------------------------------------
\* Vocabulary of the properties
\* ------------------------------------------------------------------------
\* the instance the latest operation ran on
Target == Slot(last.slot)

Readable(k) == ~KeyBytes(k).panic

KeyLength(k) == Len(KeyBytes(k).b)

ValidKey(c) == Readable(c.key) /\ KeyLength(c.key) \in {Aes128, Aes192, Aes256}

IvSize(c) == IF c.kind = "gcm" THEN gcmStandardNonceSize ELSE BlockSize

ValidIv(c) == Readable(c.iv) /\ KeyLength(c.iv) = IvSize(c)

\* an instance as NewCBC, NewCFB, NewOFB, NewCTR, NewGCM and the New...Stream
\* constructors return it
IsNew(c) == c.kind \in {"cbc", "streamToBlock", "gcm", "steam"}

\* an encryption whose sink and source, where it has them, do not fail
Encrypted == last.op \in {"Encrypt", "EncryptStream"} /\ ~IoFails

Decrypted == last.op \in {"Decrypt", "DecryptStream"}

\* a Stream encodes nothing; a Cipher needs a codec in DefaultStringCodec
CodecInstalled == last.op \in {"EncryptStream", "DecryptStream"} \/ last.codec \in {HexCodec, NopCodec}

Failed(res) == ~res.panic /\ res.err # Nil /\ res.out = << >>

\* the bytes the string handed to the latest Decrypt decodes to
Decoded ==
    IF last.op = "DecryptStream" THEN [panic |-> FALSE, b |-> last.input, err |-> Nil]
    ELSE DecodeString(last.codec, last.input)

Decodes == ~Decoded.panic /\ Decoded.err = Nil

\* ------------------------------------------------------------------------
\* Properties
\* ------------------------------------------------------------------------

\* C1: round trip on one instance.  An instance with a key of 16, 24 or 32
\* bytes and an IV of 16 bytes (a nonce of 12 bytes for GCM) encrypts every
\* plaintext without error (for CBC: every plaintext of whole blocks), and
\* decrypts the string it returned to exactly that plaintext, without error.
\* The same for EncryptStream and DecryptStream.
RoundTripOnOneInstance ==
    /\ (/\ Encrypted
        /\ IsNew(Target) /\ ValidKey(Target) /\ ValidIv(Target)
        /\ CodecInstalled
        /\ Target.kind = "cbc" => Len(last.input) % BlockSize = 0)
       => (last.res.err = Nil /\ ~last.res.panic)
    /\ (/\ Decrypted
        /\ last.how = "kept"
        /\ last.slot = kept.slot
        /\ IsNew(Target) /\ ValidKey(Target) /\ ValidIv(Target)
        /\ last.codec = kept.codec \/ last.op = "DecryptStream")
       => (last.res.err = Nil /\ ~last.res.panic /\ last.res.out = kept.plain)

\* a GCM instance got back a plaintext of more than two blocks
RoundTripWitness ==
    /\ last.op = "Decrypt" /\ last.how = "kept" /\ last.slot = kept.slot
    /\ Target.kind = "gcm" /\ call.ctor = "NewGCM"
    /\ Len(kept.plain) > BlockSize * MaxBlocks
    /\ last.res.err = Nil /\ last.res.out = kept.plain

\* C2: cross-instance round trip.  Two instances from the same constructor
\* call, made under the same default salt, decrypt each other's ciphertext to
\* the plaintext, in both directions, whatever random IV each one drew.
SameConstruction ==
    /\ another.kind = cipher.kind
    /\ another.cipherStream = cipher.cipherStream
    /\ another.key = cipher.key
    /\ UsesRandomIv(call.ctor) \/ another.iv = cipher.iv

CrossInstanceRoundTrip ==
    (/\ Decrypted
     /\ last.how = "kept"
     /\ last.slot # kept.slot
     /\ SameConstruction
     /\ last.codec = kept.codec \/ last.op = "DecryptStream")
    => (last.res.err = Nil /\ ~last.res.panic /\ last.res.out = kept.plain)

\* the first SimpleCTR instance decrypted what the second one, with another
\* random IV, encrypted
CrossInstanceWitness ==
    /\ call.ctor = "SimpleCTR"
    /\ last.op = "Decrypt" /\ last.how = "kept"
    /\ kept.slot = 2 /\ last.slot = 1
    /\ SameConstruction
    /\ KeyBytes(another.iv).b # KeyBytes(cipher.iv).b
    /\ Len(kept.plain) > BlockSize
    /\ last.res.err = Nil /\ last.res.out = kept.plain

\* C3: the negative cases fail fast.  Encrypt on an instance whose key has
\* none of the AES lengths, or whose IV (nonce) has the wrong length, and
\* NewCBC Encrypt of a plaintext that is no whole number of blocks, return
\* an error and the empty string, and do not panic.
NegativeCase ==
    /\ last.op = "Encrypt"
    /\ Target.kind \in {"cbc", "streamToBlock", "gcm"}
    /\ Readable(Target.key) /\ Readable(Target.iv)
    /\ \/ ~ValidKey(Target)
       \/ ~ValidIv(Target)
       \/ Target.kind = "cbc" /\ Len(last.input) % BlockSize # 0

NegativeCasesFailFast == NegativeCase => Failed(last.res)

\* NewCTR with a valid key and a 12-byte IV: the mode constructor panicked
NegativeCaseWitness ==
    /\ NegativeCase
    /\ Target.kind = "streamToBlock" /\ Target.cipherStream = "ctr"
    /\ ValidKey(Target) /\ KeyLength(Target.iv) = NonceSize
    /\ Failed(last.res)

\* C4: no operation ends in a panic, and every panic raised while an
\* operation ran comes back as an error that wraps ErrPanic.
NoUncontrolledPanic ==
    /\ ~last.res.panic
    /\ last.res.fault => ErrorsIs(last.res.err, "ErrPanic")

\* Decrypt under a nil DefaultStringCodec: the codec call panicked
PanicWitness ==
    /\ last.op = "Decrypt" /\ last.codec = NilCodec
    /\ last.res.fault /\ ErrorsIs(last.res.err, "ErrPanic") /\ ~last.res.panic

\* C5: NewCBC Encrypt of a plaintext that is no whole number of blocks
\* returns ErrPlaintextBlockSize and the empty string, whatever the lengths
\* of the key and the IV.
MisalignedPlaintext ==
    /\ last.op = "Encrypt"
    /\ Target.kind = "cbc"
    /\ Readable(Target.key) /\ Readable(Target.iv)
    /\ Len(last.input) % BlockSize # 0

CbcPlaintextBlockSize ==
    MisalignedPlaintext
    => (last.res.err = ErrPlaintextBlockSize /\ last.res.out = << >> /\ ~last.res.panic)

\* a misaligned plaintext under a key of no AES length and an IV of 12 bytes
CbcPlaintextBlockSizeWitness ==
    /\ MisalignedPlaintext
    /\ ~ValidKey(Target) /\ ~ValidIv(Target)
    /\ last.res.err = ErrPlaintextBlockSize

\* C6: NewCBC Decrypt with a valid key.  Fewer than 16 decoded bytes:
\* ErrCipherTextTooShort; at least 16 and no whole number of blocks:
\* ErrCipherTextBlockSize; both with an empty plaintext.  Exactly 16 decoded
\* bytes: the empty plaintext and no error.
CbcDecryptOf ==
    /\ last.op = "Decrypt"
    /\ Target.kind = "cbc"
    /\ ValidKey(Target)
    /\ Decodes

CbcCiphertextSize ==
    CbcDecryptOf =>
        LET n == Len(Decoded.b)
        IN  /\ ~last.res.panic
            /\ n < BlockSize => (last.res.err = ErrCipherTextTooShort /\ last.res.out = << >>)
            /\ (n >= BlockSize /\ n % BlockSize # 0)
               => (last.res.err = ErrCipherTextBlockSize /\ last.res.out = << >>)
            /\ n = BlockSize => (last.res.err = Nil /\ last.res.out = << >>)

\* a ciphertext of several blocks cut down to its IV decrypted to nothing
CbcCiphertextSizeWitness ==
    /\ CbcDecryptOf
    /\ last.how = "cut" /\ Len(kept.plain) > 0
    /\ Len(Decoded.b) = BlockSize
    /\ last.res.err = Nil /\ last.res.out = << >>

\* C7: NewCBC Decrypt never reads the instance's IV.  With any other IV Key
\* in the instance (of another value, of the wrong length, or one whose
\* Bytes() panics) the same string gives the same plaintext and error.
CbcDecryptIgnoresInstanceIv ==
    (last.op = "Decrypt" /\ Target.kind = "cbc")
    => \A iv \in {Iv1, Iv2, Nonce1, nilKey} :
          Decrypt([Target EXCEPT !.iv = iv], last.input, last.codec) = last.res

\* an instance built with a 12-byte IV decrypted the ciphertext of an
\* instance built with a 16-byte IV
CbcDecryptIgnoresInstanceIvWitness ==
    /\ last.op = "Decrypt" /\ last.how = "kept"
    /\ Target.kind = "cbc"
    /\ kept.slot = 1 /\ last.slot = 2
    /\ KeyLength(another.iv) = NonceSize /\ KeyLength(cipher.iv) = BlockSize
    /\ Len(kept.plain) > 0
    /\ last.res.err = Nil /\ last.res.out = kept.plain

\* C8: the ciphertext envelope.  For NewCBC and for CFB, OFB and CTR, as a
\* Cipher and as a Stream, the raw output of a successful encryption of p
\* is 16 + len(p) bytes, the first 16 of which are the instance's IV.
Enveloped ==
    /\ Encrypted
    /\ Target.kind \in {"cbc", "streamToBlock", "steam"}
    /\ last.res.err = Nil

CiphertextEnvelope ==
    Enveloped
    => /\ ValidKey(Target) /\ ValidIv(Target)
       /\ Len(last.res.raw) = BlockSize + Len(last.input)
       /\ Take(last.res.raw, BlockSize) = KeyBytes(Target.iv).b

\* a Stream wrote the envelope of a plaintext of more than two blocks
CiphertextEnvelopeWitness ==
    /\ Enveloped
    /\ last.op = "EncryptStream" /\ Target.cipherStream = "ofb"
    /\ Len(last.input) > BlockSize * MaxBlocks
    /\ Len(last.res.out) = BlockSize + Len(last.input)

\* C9: GCM tamper detection.  The instance that sealed a ciphertext returns
\* an error and no plaintext for that ciphertext with one byte changed, in
\* the body or in the tag, and for every truncation of it; it returns no
\* plaintext other than the original without an error.
GcmOwnCiphertext ==
    /\ last.op = "Decrypt"
    /\ Target.kind = "gcm"
    /\ last.how \in {"kept", "flip", "cut"}
    /\ last.slot = kept.slot
    /\ last.codec = kept.codec

GcmTamperDetection ==
    GcmOwnCiphertext
    => /\ last.how \in {"flip", "cut"} => Failed(last.res)
       /\ last.res.err = Nil => last.res.out = kept.plain

\* a changed byte in the body of a sealed plaintext was rejected
GcmTamperWitness ==
    /\ GcmOwnCiphertext
    /\ last.how = "flip"
    /\ Len(kept.plain) > BlockSize
    /\ Decoded.b # kept.res.raw
    /\ Take(Decoded.b, Len(kept.plain)) # Take(kept.res.raw, Len(kept.plain))
    /\ last.res.err = errOpen

\* C10: the GCM output is the seal output alone, len(p) + 16 bytes, and
\* Decrypt opens with the nonce of the decrypting instance: an instance with
\* the same key and another 12-byte nonce returns an error, not the plaintext.
GcmOtherNonce ==
    /\ last.op = "Decrypt" /\ last.how = "kept"
    /\ Target.kind = "gcm" /\ Producer.kind = "gcm"
    /\ last.slot # kept.slot
    /\ last.codec = kept.codec
    /\ ValidKey(Target) /\ ValidIv(Target)
    /\ KeyBytes(Target.key).b = KeyBytes(Producer.key).b
    /\ KeyBytes(Target.iv).b # KeyBytes(Producer.iv).b

GcmNonceNotEmbedded ==
    /\ (last.op = "Encrypt" /\ Target.kind = "gcm" /\ last.res.err = Nil)
       => Len(last.res.raw) = Len(last.input) + gcmTagSize
    /\ GcmOtherNonce => Failed(last.res)

\* an instance with the other nonce was handed a sealed plaintext
GcmNonceWitness ==
    /\ GcmOtherNonce
    /\ Len(kept.plain) > 0
    /\ Len(kept.res.raw) = Len(kept.plain) + gcmTagSize
    /\ last.res.err = errOpen

\* ------------------------------------------------------------------------
\* Properties of the keys
\* ------------------------------------------------------------------------
Max(a, b) == IF a > b THEN a ELSE b

\* the WithLen options among the options, in order
LenOptions(options) == SelectSeq(options, LAMBDA o : o.field = "Len")

\* the argument of the last WithLen among the options
AskedLen(options) == LenOptions(options)[Len(LenOptions(options))].arg

BytesCalled == newKey.ctor # "none" /\ Len(bytes) > 0

\* C11: Bytes() of a key made by NewKey(passphrase, len, salt) returns
\* exactly max(len, 0) bytes, hence none for a len of 0 or less, does not
\* panic, and returns the same bytes on every call; a second NewKey with
\* the same arguments gives the same bytes as well.
NewKeyBytes ==
    (newKey.ctor = "NewKey" /\ BytesCalled)
    => /\ \A i \in 1..Len(bytes) :
            /\ ~bytes[i].panic
            /\ Len(bytes[i].b) = Max(newKey.len, 0)
            /\ newKey.len <= 0 => bytes[i].b = << >>
            /\ bytes[i] = bytes[1]
       /\ KeyBytes(NewKey(newKey.passphrase, newKey.len, newKey.k.Salt)) = bytes[1]

\* a key of 20 bytes was derived twice
NewKeyBytesWitness ==
    /\ newKey.ctor = "NewKey" /\ newKey.len = 20
    /\ Len(bytes) = MaxBytesCalls
    /\ Len(bytes[1].b) = 20 /\ bytes[2] = bytes[1]

\* the value the last option for a field assigned, or the default
RECURSIVE LastOf(_, _, _)
LastOf(options, field, default) ==
    IF options = << >> THEN default
    ELSE LastOf(Drop(options, 1), field,
                IF options[1].field = field THEN options[1].arg ELSE default)

\* C12: NewAesKey(passphrase, options...) yields a key of 16, 24 or 32
\* bytes: 32 without a WithLen, n for a last WithLen(n) with n in
\* {16, 24, 32}, 32 for a last WithLen(n) with any other n; for the salt
\* and the passphrase too the last option wins over the default.
NewAesKeyLength ==
    (newKey.ctor = "NewAesKey" /\ BytesCalled)
    => LET n == Len(bytes[1].b)
           asked == LastOf(newKey.options, "Len", Aes256)
       IN  /\ ~bytes[1].panic
           /\ n \in {Aes128, Aes192, Aes256}
           /\ n = newKey.k.Len
           /\ n = (IF asked \in {Aes128, Aes192, Aes256} THEN asked ELSE Aes256)
           /\ newKey.k.Salt = LastOf(newKey.options, "Salt", DefaultSalt)
           /\ newKey.k.Passphrase = LastOf(newKey.options, "Passphrase", newKey.passphrase)

\* WithLen(16) followed by WithLen(24) made a key of 24 bytes
NewAesKeyLengthWitness ==
    /\ newKey.ctor = "NewAesKey" /\ BytesCalled
    /\ Len(newKey.options) = 2
    /\ newKey.options[1] = OptLen(Aes128) /\ newKey.options[2] = OptLen(Aes192)
    /\ Len(bytes[1].b) = Aes192

\* C20: a nonce or IV made by NewNonce or NewIv with a length option n that
\* is none of 16, 24, 32 has exactly n bytes (n >= 0).
NonceLengthArbitrary ==
    (/\ newKey.ctor \in {"NewNonce", "NewIv"}
     /\ BytesCalled
     /\ LenOptions(newKey.options) # << >>
     /\ AskedLen(newKey.options) \notin {Aes128, Aes192, Aes256}
     /\ AskedLen(newKey.options) >= 0)
    => Len(bytes[1].b) = AskedLen(newKey.options)

\* C20, as the code has it: WithLen checks its argument itself, for every
\* constructor.  A nonce or IV made by NewNonce or NewIv has the default
\* length (12, 16) without a WithLen, n bytes for a last WithLen(n) with n in
\* {16, 24, 32}, and 32 bytes for a last WithLen(n) with any other n.
NonceLengthClamped ==
    (newKey.ctor \in {"NewNonce", "NewIv"} /\ BytesCalled)
    => LET n == Len(bytes[1].b)
       IN  /\ ~bytes[1].panic
           /\ LenOptions(newKey.options) = << >> => n = newKey.len
           /\ LenOptions(newKey.options) # << >>
              => n = (IF AskedLen(newKey.options) \in {Aes128, Aes192, Aes256}
                      THEN AskedLen(newKey.options) ELSE Aes256)

\* NewNonce(passphrase, WithLen(12)) made a nonce of 32 bytes
NonceLengthClampedWitness ==
    /\ newKey.ctor = "NewNonce" /\ BytesCalled
    /\ newKey.options = <<OptLen(NonceSize)>>
    /\ Len(bytes[1].b) = Aes256

\* ------------------------------------------------------------------------
\* Properties of the padding
\* ------------------------------------------------------------------------
PadSizeAllowed == pad.n >= 2 /\ pad.n <= 255

\* C17: pkcs7.Pad(b, data) for b in [2, 255] returns data followed by
\* k = b - (len(data) mod b) bytes of value k; for data of a whole number
\* of blocks, the empty data included, that is a full block of bytes b; the
\* length of the result is a positive multiple of b.
PadAppends ==
    (pad.fn = "Pad" /\ PadSizeAllowed)
    => LET out == pad.res.out
           k == pad.n - (Len(pad.in) % pad.n)
       IN  /\ ~pad.res.panic
           /\ Len(out) = Len(pad.in) + k
           /\ Take(out, Len(pad.in)) = pad.in
           /\ \A i \in (Len(pad.in) + 1)..Len(out) : out[i] = k
           /\ Len(pad.in) % pad.n = 0 => k = pad.n
           /\ Len(out) > 0 /\ Len(out) % pad.n = 0

\* data of three blocks of 255 bytes got a fourth block of bytes 255
PadAppendsWitness ==
    /\ pad.fn = "Pad" /\ pad.n = 255
    /\ Len(pad.in) = 3 * 255
    /\ Len(pad.res.out) = 4 * 255 /\ pad.res.out[4 * 255] = 255

\* C18: padding round trip.  For every block size b in [2, 255] and data of
\* 0 to 3b bytes, Unpad(b, Pad(b, data)) returns data and no error.
PadRoundTrip ==
    (pad.fn = "Unpad" /\ pad.how = "padded" /\ PadSizeAllowed)
    => (~pad.res.panic /\ pad.res.err = Nil /\ pad.res.out = pad.data)

\* data of 3b bytes that all look like a padding came back
PadRoundTripWitness ==
    /\ pad.fn = "Unpad" /\ pad.how = "padded" /\ pad.n = MaxPadSize
    /\ Len(pad.data) = 3 * pad.n /\ pad.data[Len(pad.data)] = 1
    /\ pad.res.err = Nil /\ pad.res.out = pad.data

\* the error Unpad owes to an input, the first that applies in the order
\* empty, misaligned, last byte above b, last byte 0, padding bytes unequal
Malformed(n, in) ==
    LET l == Len(in)
    IN  IF l = 0 THEN <<"ErrorPaddingNotFound">>
        ELSE IF l % n # 0 THEN <<"ErrorPaddingNotAMultiple">>
        ELSE IF in[l] > n THEN <<"ErrorPaddingTooLong">>
        ELSE IF in[l] = 0 THEN <<"ErrorPaddingTooShort">>
        ELSE IF \E i \in (l - in[l] + 1)..l : in[i] # in[l]
        THEN <<"ErrorPaddingNotAllTheSame">>
        ELSE Nil

\* C19: pkcs7.Unpad(b, in) returns no bytes and a distinct error for each
\* malformed input: ErrorPaddingNotFound for the empty input,
\* ErrorPaddingNotAMultiple for a length that is no multiple of b,
\* ErrorPaddingTooLong for a last byte above b, ErrorPaddingTooShort for a
\* last byte of 0, ErrorPaddingNotAllTheSame when the last k bytes (k the
\* last byte) are not all k; where two apply, the earlier in this order.
UnpadRejects ==
    (pad.fn = "Unpad" /\ PadSizeAllowed /\ Malformed(pad.n, pad.in) # Nil)
    => /\ ~pad.res.panic
       /\ pad.res.err = Malformed(pad.n, pad.in)
       /\ pad.res.out = << >>

\* a padding whose first byte was changed was rejected
UnpadRejectsWitness ==
    /\ pad.fn = "Unpad" /\ pad.how = "mixed" /\ pad.n = BlockSize
    /\ pad.res.err = <<"ErrorPaddingNotAllTheSame">> /\ pad.res.out = << >>

\* ------------------------------------------------------------------------
\* Properties of the Simple constructors and of the Stream protocol
\* ------------------------------------------------------------------------

\* C16: SimpleCBC lifts the alignment requirement.  Encrypt succeeds for a
\* plaintext of any length n, never with ErrPlaintextBlockSize; the raw
\* ciphertext has 16 + 16 * (n \div 16 + 1) bytes; Decrypt strips the padding
\* and returns the plaintext, for n = 0 and for whole blocks too.
SimpleCbcAnyLength ==
    /\ (last.op = "Encrypt" /\ Target.kind = "simpleCBC" /\ CodecInstalled)
       => /\ last.res.err = Nil /\ ~last.res.panic
          /\ Len(last.res.raw) = BlockSize + BlockSize * ((Len(last.input) \div BlockSize) + 1)
    /\ (last.op = "Encrypt" /\ Target.kind = "simpleCBC")
       => last.res.err # ErrPlaintextBlockSize
    /\ (/\ last.op = "Decrypt" /\ Target.kind = "simpleCBC"
        /\ last.how = "kept" /\ last.codec = kept.codec
        /\ last.slot = kept.slot \/ SameConstruction)
       => (last.res.err = Nil /\ ~last.res.panic /\ last.res.out = kept.plain)

\* a plaintext of whole blocks got a block of padding and came back
SimpleCbcAnyLengthWitness ==
    /\ last.op = "Decrypt" /\ Target.kind = "simpleCBC" /\ last.how = "kept"
    /\ Len(kept.plain) = BlockSize * MaxBlocks
    /\ Len(kept.res.raw) = BlockSize * (MaxBlocks + 2)
    /\ last.res.err = Nil /\ last.res.out = kept.plain

\* C13: SimpleCBC generates a random IV for each encryption.  After a
\* successful Encrypt on a SimpleCBC instance, a further Encrypt on that
\* instance can return a ciphertext whose 16-byte IV prefix differs from the
\* prefix of the one just returned: the two prefixes are not bound to be equal.
SimpleCbcIvPerEncryption ==
    (/\ last.op = "Encrypt" /\ Target.kind = "simpleCBC"
     /\ CodecInstalled /\ last.res.err = Nil)
    => \E p \in Plaintexts :
          LET r == Encrypt(Target, p, last.codec)
          IN  r.err = Nil /\ Take(r.raw, BlockSize) # Take(last.res.raw, BlockSize)

Written(c, src) == steamEncryptStream(c, Reader(src, FALSE), Buffer).out

\* C15: the order of the stream protocol.  EncryptStream on an instance with
\* a valid key and IV writes the 16 IV bytes and then one ciphertext byte per
\* source byte, in source order: a sink that fails holds a prefix of that
\* output, so IV bytes before any ciphertext byte, and the output for a
\* prefix of the source is a prefix of the output.  DecryptStream takes the
\* first 16 bytes of the source as the IV, whatever the instance's own IV is,
\* and writes the transform of all the bytes after them: as many bytes as the
\* source has, minus 16, which encrypt back to the source under that IV; a
\* source of fewer than 16 bytes gives an error of the ErrCopy class and
\* nothing written.
StreamProtocolOrder ==
    /\ (/\ last.op = "EncryptStream" /\ Target.kind = "steam"
        /\ last.how # "broken"
        /\ ValidKey(Target) /\ ValidIv(Target))
       => LET full == Written(Target, last.input)
              sink == last.res.out
          IN  /\ Len(full) = BlockSize + Len(last.input)
              /\ Take(full, BlockSize) = KeyBytes(Target.iv).b
              /\ sink = Take(full, Len(sink))
              /\ IF last.res.err = Nil THEN sink = full
                 ELSE /\ last.how = "short"
                      /\ ErrorsIs(last.res.err, "ErrCopy")
                      /\ Len(sink) < Len(full)
              /\ \A k \in {0, 5, BlockSize} :
                    k <= Len(last.input)
                    => Written(Target, Take(last.input, k)) = Take(full, BlockSize + k)
    /\ (last.op = "DecryptStream" /\ Target.kind = "steam" /\ ValidKey(Target)
        /\ ~IoFails)
       => /\ Len(last.input) < BlockSize
             => /\ ErrorsIs(last.res.err, "ErrCopy")
                /\ last.res.out = << >>
          /\ Len(last.input) >= BlockSize
             => /\ last.res.err = Nil
                /\ Len(last.res.out) = Len(last.input) - BlockSize
                /\ Written([Target EXCEPT !.iv = bytesKey(Take(last.input, BlockSize))],
                           last.res.out) = last.input
          /\ \A iv \in OtherIvs \cup {nilKey} :
                steamDecryptStream([Target EXCEPT !.iv = iv],
                                   Reader(last.input, FALSE), Buffer) = last.res

\* a sink that failed after 5 bytes holds the first 5 bytes of the IV and
\* nothing of the ciphertext of a plaintext of more than a block
StreamProtocolOrderWitness ==
    /\ last.op = "EncryptStream" /\ last.how = "short"
    /\ ValidKey(Target) /\ ValidIv(Target)
    /\ Len(last.input) > BlockSize
    /\ last.res.out = Take(KeyBytes(Target.iv).b, 5)
    /\ ErrorsIs(last.res.err, "ErrCopy")

\* ------------------------------------------------------------------------
\* Properties of the errors
\* ------------------------------------------------------------------------

\* the latest operation got a key that the block cipher rejects and nothing
\* else to complain about: a codec, an IV (nonce) of the right length, for
\* CBC Encrypt a plaintext of whole blocks, for Decrypt a string that decodes
\* to at least two whole blocks
KeyRejected ==
    /\ last.op \in {"Encrypt", "Decrypt", "EncryptStream", "DecryptStream"}
    /\ IsNew(Target)
    /\ CodecInstalled
    /\ Readable(Target.key) /\ KeyLength(Target.key) \notin {Aes128, Aes192, Aes256}
    /\ ValidIv(Target)
    /\ (last.op = "Encrypt" /\ Target.kind = "cbc") => Len(last.input) % BlockSize = 0
    /\ Decrypted => /\ Decodes
                    /\ Len(Decoded.b) >= 2 * BlockSize
                    /\ Len(Decoded.b) % BlockSize = 0

\* C21: when the block cipher rejects the key length and all other inputs
\* are valid, Encrypt and Decrypt of every mode (CBC, CFB, OFB, CTR, GCM)
\* return an error for which errors.Is(err, ErrNewAesCipher) holds.
KeyErrorIsErrNewAesCipher ==
    KeyRejected => ErrorsIs(last.res.err, "ErrNewAesCipher")

\* an error of the copy class, and of no other class of the package
CopyError(err) ==
    /\ ErrorsIs(err, "ErrCopy")
    /\ ~ErrorsIs(err, "ErrNewAesCipher")
    /\ ~ErrorsIs(err, "ErrPanic")
    /\ err \notin {ErrPlaintextBlockSize, ErrCipherTextTooShort, ErrCipherTextBlockSize}

\* the number of bytes the latest stream operation writes when nothing fails
Expected ==
    IF last.op = "EncryptStream" THEN BlockSize + Len(last.input)
    ELSE Len(last.input) - BlockSize

\* C22: in CFB/OFB/CTR streaming every I/O failure is a copy error.  On an
\* instance with a valid key and IV, a sink that fails before it has taken
\* every byte (the IV bytes or the body, in EncryptStream and in
\* DecryptStream) and a source that ends in a read error give an error that
\* wraps ErrCopy.  A decryption source of fewer than 16 bytes gives an error
\* that wraps ErrCopy whatever the length of the key, and so does Decrypt of
\* the string adapter for a string that decodes to fewer than 16 bytes.  None
\* of these errors is ErrNewAesCipher, ErrPanic or a CBC size error.
IoFailureIsCopyError ==
    /\ (/\ last.op \in {"EncryptStream", "DecryptStream"} /\ Target.kind = "steam"
        /\ ValidKey(Target) /\ ValidIv(Target)
        /\ \/ last.how = "broken"
           \/ last.how = "short" /\ Len(last.res.out) < Expected)
       => CopyError(last.res.err)
    /\ (/\ last.op = "DecryptStream" /\ Target.kind = "steam"
        /\ Readable(Target.key)
        /\ Len(last.input) < BlockSize)
       => CopyError(last.res.err)
    /\ (/\ last.op = "Decrypt" /\ Target.kind = "streamToBlock"
        /\ Readable(Target.key)
        /\ Decodes /\ Len(Decoded.b) < BlockSize)
       => CopyError(last.res.err) /\ last.res.out = << >>

\* the CTR adapter with a key of no AES length was handed a string that
\* decodes to three bytes
IoFailureIsCopyErrorWitness ==
    /\ last.op = "Decrypt" /\ Target.kind = "streamToBlock" /\ Target.cipherStream = "ctr"
    /\ Readable(Target.key) /\ ~ValidKey(Target)
    /\ Decodes /\ Len(Decoded.b) = 3
    /\ CopyError(last.res.err)

\* ------------------------------------------------------------------------
\* Properties of the package-level variables
\* ------------------------------------------------------------------------

\* the instance that made the kept ciphertext, with a valid key and IV, is
\* handed that ciphertext, or its plaintext once more, under an installed codec
OwnCiphertextAgain ==
    /\ kept.slot # 0 /\ last.slot = kept.slot
    /\ IsNew(Target) /\ ValidKey(Target) /\ ValidIv(Target)
    /\ CodecInstalled
    /\ \/ last.op = "Decrypt" /\ last.how = "kept"
       \/ last.op = "Encrypt" /\ last.how = "again" /\ last.input = kept.plain

KeyMaterialImmutable ==
    \A i, j \in 1 .. Len(got) : got[i].val = got[j].val

\* the passphrase made to length n: cut when it is longer, else extended by
\* the byte i mod 256 at every index i from its length on (indices from 0)
MadeToLength(passphrase, n) ==
    [i \in 1 .. n |-> IF i <= Len(passphrase) THEN passphrase[i] ELSE (i - 1) % 256]

\* C25: when scrypt.Key returns an error, keyGen.Bytes returns the passphrase
\* bytes made to the requested length, which is the length of the result
DerivationFallback ==
    fallback.done =>
        fallback.b = MadeToLength(newKey.k.Passphrase,
                                  IF newKey.k.Len < 0 THEN 0 ELSE newKey.k.Len)

\* what the code returns instead: the bytes 0, 1, 2, ... of the requested
\* length, whatever the passphrase
FallbackForgetsPassphrase ==
    fallback.done =>
        fallback.b = MadeToLength(<< >>, IF newKey.k.Len < 0 THEN 0 ELSE newKey.k.Len)

FallbackForgetsPassphraseWitness ==
    /\ fallback.done
    /\ newKey.k.Passphrase # << >>
    /\ Len(fallback.b) = Aes256

\* C28: the Key NewRandomIv returns gives exactly 16 bytes, the same on every
\* call of Bytes(), when rand.Read succeeded (the random bytes) and when it
\* failed (an IV derived from a passphrase fixed at construction)
RandomIvIsSixteenBytes ==
    newKey.ctor = "NewRandomIv" =>
        /\ newKey.k.kind = "bytesKey" => newKey.k.b \in {r.b : r \in RandomIvs}
        /\ newKey.k.kind # "bytesKey" =>
              newKey.k.kind = "keyGen" /\ newKey.k.Passphrase = ClockPassphrase
        /\ \A i \in 1 .. Len(bytes) :
              /\ ~bytes[i].panic
              /\ Len(bytes[i].b) = BlockSize
              /\ bytes[i].b = bytes[1].b
              /\ newKey.k.kind = "bytesKey" => bytes[i].b = newKey.k.b

\* rand.Read failed, and Bytes() was called twice on the derived IV
RandomIvIsSixteenBytesWitness ==
    /\ newKey.ctor = "NewRandomIv"
    /\ newKey.k.kind = "keyGen"
    /\ Len(bytes) = 2

\* rand.Read succeeded, and Bytes() was called twice on the random IV
RandomIvRawWitness ==
    /\ newKey.ctor = "NewRandomIv"
    /\ newKey.k.kind = "bytesKey"
    /\ Len(bytes) = 2

\* the keys of the instance the latest operation ran on that are derived
DerivedKeys == Cardinality({f \in {"key", "iv"} : Target[f].kind = "keyGen"})

DerivationPerCallCbcWitness ==
    /\ call.ctor = "SimpleCBC"
    /\ Target.iv.kind = "bytesKey"
    /\ last.op = "Decrypt"
    /\ last.derived = 1
    /\ last.res.err = Nil

\* the part of C24 that holds: a key made by String(s) returns the same bytes
\* whatever the caller wrote in between
StringKeyImmutable ==
    held.kind = "stringKey" => \A i, j \in 1 .. Len(got) : got[i].val = got[j].val

StringKeyImmutableWitness ==
    /\ held.kind = "stringKey"
    /\ Len(got) = 2
    /\ heap[got[1].at] # got[1].val

\* ------------------------------------------------------------------------
\* Properties of the default salt
\* ------------------------------------------------------------------------

\* the latest operation decrypted the kept ciphertext, as it was returned,
\* on an instance of a Simple constructor
SimpleDecryptsKept ==
    /\ Decrypted
    /\ last.how = "kept"
    /\ IsSimple(call.ctor)
    /\ last.codec = kept.codec \/ last.op = "DecryptStream"

\* DefaultSalt was assigned after the producer of the ciphertext was made
SaltReassigned == DefaultSalt # Producer.key.Salt

\* the instance that decrypts was made after the assignment, the producer
\* before it
MadeAfterReassignment ==
    /\ last.slot # kept.slot
    /\ Target.key.Salt # Producer.key.Salt

\* the salt is stored in the key when it is constructed: an instance made
\* before DefaultSalt was reassigned still decrypts what it encrypted
SaltStoredAtConstruction ==
    (SimpleDecryptsKept /\ last.slot = kept.slot /\ SaltReassigned) =>
        /\ KeyBytes(Target.key) = KeyBytes(NewAesKey(Passphrase, Target.key.Salt))
        /\ KeyBytes(Target.key) # KeyBytes(NewAesKey(Passphrase, DefaultSalt))
        /\ last.res.err = Nil /\ ~last.res.panic /\ last.res.out = kept.plain

\* an instance made after the reassignment from the same passphrase has
\* another key; GCM rejects the ciphertext, the others return without error
WrongSaltOutcome ==
    (SimpleDecryptsKept /\ MadeAfterReassignment) =>
        /\ KeyBytes(Target.key).b # KeyBytes(Producer.key).b
        /\ ~last.res.panic
        /\ Target.kind = "gcm" => (last.res.err # Nil /\ last.res.out = << >>)
        /\ Target.kind \in {"steam", "streamToBlock"} => last.res.err = Nil

\* C29 as stated: the salt is read once, at construction, and stored in the
\* key; an instance made before a reassignment of DefaultSalt still decrypts
\* its ciphertext, an instance made after it from the same passphrase never
\* recovers the plaintext
SaltReadAtConstruction ==
    /\ SaltStoredAtConstruction
    /\ WrongSaltOutcome
    /\ (SimpleDecryptsKept /\ MadeAfterReassignment)
          => ~(last.res.err = Nil /\ last.res.out = kept.plain)

\* C29, amended: as above, and the instance made after the reassignment does
\* not recover a plaintext that is not empty; CFB, OFB and CTR return the
\* empty plaintext of a ciphertext that holds the IV alone under every key
SaltReadAtConstructionNonEmpty ==
    /\ SaltStoredAtConstruction
    /\ WrongSaltOutcome
    /\ (SimpleDecryptsKept /\ MadeAfterReassignment)
          => \/ ~(last.res.err = Nil /\ last.res.out = kept.plain)
             \/ Target.kind \in {"steam", "streamToBlock"} /\ kept.plain = << >>

\* a SimpleCTR instance made under the new salt returned, without error,
\* something else than the plaintext
SaltReadAtConstructionWitness ==
    /\ SimpleDecryptsKept /\ MadeAfterReassignment
    /\ call.ctor = "SimpleCTR"
    /\ kept.plain # << >>
    /\ last.res.err = Nil
    /\ last.res.out # kept.plain

\* a SimpleGCM instance decrypted its ciphertext after DefaultSalt was
\* reassigned
SaltKeptByInstanceWitness ==
    /\ SimpleDecryptsKept /\ last.slot = kept.slot /\ SaltReassigned
    /\ call.ctor = "SimpleGCM"
    /\ last.res.out = kept.plain /\ kept.plain # << >>

\* ------------------------------------------------------------------------
\* Properties of the streams that fail early
\* ------------------------------------------------------------------------

\* the key of the instance is one aes.NewCipher rejects
KeyIsRejected == Readable(Target.key) /\ ~ValidKey(Target)

\* C30: no partial output on an early stream failure.  EncryptStream writes
\* no byte to the sink when the key is rejected or the IV is not 16 bytes
\* long; DecryptStream writes no byte to the sink when the source holds fewer
\* than 16 bytes or the key is rejected, and has read at most 16 bytes of the
\* source by then
NoPartialOutput ==
    /\ (/\ last.op = "EncryptStream" /\ Target.kind = "steam"
        /\ KeyIsRejected \/ ~ValidIv(Target))
       => (last.res.out = << >> /\ last.res.err # Nil)
    /\ (/\ last.op = "DecryptStream" /\ Target.kind = "steam"
        /\ KeyIsRejected \/ Len(last.input) < BlockSize)
       => /\ last.res.out = << >>
          /\ last.res.err # Nil
          /\ ReadFull(Reader(last.input, FALSE)).b = Take(last.input, BlockSize)
          /\ (Readable(Target.key) /\ Len(last.input) < BlockSize)
                => ErrorsIs(last.res.err, "ErrCopy")
          /\ (KeyIsRejected /\ Len(last.input) >= BlockSize)
                => ErrorsIs(last.res.err, "ErrNewAesCipher")

\* EncryptStream with a key of 20 bytes and a plaintext that is not empty
NoPartialOutputWitness ==
    /\ last.op = "EncryptStream" /\ Target.kind = "steam"
    /\ KeyIsRejected /\ ValidIv(Target)
    /\ last.input # << >>
    /\ last.res.out = << >>
    /\ ErrorsIs(last.res.err, "ErrNewAesCipher")

\* EncryptStream with an IV of 12 bytes
NoPartialOutputIvWitness ==
    /\ last.op = "EncryptStream" /\ Target.kind = "steam"
    /\ ValidKey(Target) /\ Readable(Target.iv) /\ ~ValidIv(Target)
    /\ last.res.out = << >> /\ last.res.err # Nil

\* DecryptStream of a source of fewer than 16 bytes, and DecryptStream of a
\* longer source with a key of 20 bytes
NoPartialOutputShortWitness ==
    /\ last.op = "DecryptStream" /\ Target.kind = "steam"
    /\ ValidKey(Target) /\ 0 < Len(last.input) /\ Len(last.input) < BlockSize

NoPartialOutputKeyWitness ==
    /\ last.op = "DecryptStream" /\ Target.kind = "steam"
    /\ KeyIsRejected /\ Len(last.input) > BlockSize

\* ------------------------------------------------------------------------
\* Properties of concurrent calls
\* ------------------------------------------------------------------------

\* C26: concurrent use is interference-free.  When several calls run
\* concurrently on one instance or on distinct instances, with their own
\* sources and sinks, and nothing writes DefaultSalt or DefaultStringCodec,
\* every call returns what it returns when it runs alone, in every
\* interleaving; no call writes to an instance
InterferenceFree ==
    /\ \A t \in Tids : threads[t].pc = "done" => threads[t].res = threads[t].alone
    /\ \A t \in Tids :
          threads[t].hasKeys =>
              /\ threads[t].key = Slot(threads[t].slot).key
              /\ threads[t].iv = Slot(threads[t].slot).iv

\* two calls on one instance, the second one called before the first one
\* returned and returning after it, both with a result
InterferenceFreeWitness ==
    /\ threads[1].pc = "done" /\ threads[2].pc = "done"
    /\ threads[1].slot = threads[2].slot
    /\ threads[1].op = "Encrypt" /\ threads[2].op = "Decrypt"
    /\ threads[1].res.err = Nil /\ threads[2].res.err = Nil
    /\ threads[2].res.out = ConcPlain

\* two calls on distinct instances
InterferenceFreeDistinctWitness ==
    /\ threads[1].pc = "done" /\ threads[2].pc = "called"
    /\ threads[1].slot # threads[2].slot
    /\ threads[2].hasKeys

====
